---- MODULE Spec2Model ----
(***************************************************************************)
(* A model of the deployment orchestration code of appscale-tools:         *)
(*   - AzureAgent (src/appscale/tools/agents/azure_agent.py): the polling  *)
(*     helpers, run_instances, terminate_instances, cleanup_state;         *)
(*   - AppScaleTools (src/appscale/tools/appscale_tools.py): bring-up      *)
(*     (run_instances), tear-down (terminate_instances) and the upgrade    *)
(*     workflow (upgrade_appscale, run_bootstrap, run_upgrade_script).     *)
(* Every workflow has its own program counter and its own specification;   *)
(* the variables of the workflows a specification does not run stay idle.  *)
(***************************************************************************)
EXTENDS Integers, Sequences, FiniteSets, TLC

(***************************************************************************)
(* Program constants.                                                      *)
(***************************************************************************)
\* AzureAgent.SLEEP_TIME: seconds slept between two polls.
SLEEP_TIME == 10

\* AzureAgent.MAX_SLEEP_TIME: wait budget of network resource operations.
MAX_SLEEP_TIME == 60

\* AzureAgent.MAX_VM_CREATION_TIME: wait budget of machine operations.
MAX_VM_CREATION_TIME == 240

(***************************************************************************)
(* Bounds of the model.                                                    *)
(***************************************************************************)
\* Extra seconds one sleep-and-measure round may take beyond SLEEP_TIME.
MaxJitter == 1

\* Largest count handed to AzureAgent.run_instances.
MaxCount == 2

\* The address wait of create_virtual_machine is counted up to this many
\* sleeps; the counter saturates there while the loop goes on.
MaxIpWaitRounds == 26

\* Interfaces (and addresses) a resource group holds when cleanup begins.
MaxLeftovers == 2

\* Nodes of a layout.
MaxNodes == 2

\* is_initialized polls answering False that bring-up counts; the counter
\* saturates there while the loop goes on.
MaxInitPolls == 2

\* Reads of the upgrade status file in one run of run_upgrade_script.
MaxReads == 4

\* Invocations of cleanup_state in a row.
MaxCleanups == 2

VARIABLES
  \* ---- one run of sleep_until_{update,delete}_operation_done ----
  pollPc,            \* "idle", "check", "sleep", "returned"
  pollKind,          \* "update" or "delete"
  pollMax,           \* the wait budget in force (max_sleep)
  pollElapsed,       \* the last measured time.time() - time_start
  pollSleeps,        \* number of time.sleep calls made
  pollTimedOut,      \* the "Operation has timed out" line was logged
  pollDoneSeen,      \* result.done() returned True
  pollSleepsAtDone,  \* pollSleeps when result.done() returned True
  \* ---- the resource group as Azure holds it ----
  cloudVnets,        \* names of the virtual networks in the group
  cloudIps,          \* names of the public IP address resources
  cloudNics,         \* names of the network interfaces
  cloudVms,          \* names of the virtual machines
  cloudIpAssigned,   \* public IP resources whose ip_address is set
  \* ---- AzureAgent.run_instances ----
  runPc,             \* position in run_instances
  runCount,          \* the count argument
  runI,              \* machines begun so far; also the current machine's name
  runTrace,          \* create calls issued and polls finished, in order
  runTimeouts,       \* resources whose create poll logged a timeout
  runIpWaitRounds,   \* sleeps of the current address wait (saturating)
  runResult,         \* what run_instances returned
  \* ---- AzureAgent.terminate_instances and its delete threads ----
  termPc,            \* position of the calling thread
  termIds,           \* instance_ids as describe_instances listed them
  termStarted,       \* threads started so far
  termJoined,        \* threads joined so far
  workerPc,          \* per machine: position of its delete thread
  workerOutcome,     \* per machine: how its delete poll ended
  vmDeleteCalls,     \* per machine: virtual_machines.delete calls issued
  termTimeoutLog,    \* machines whose delete poll logged a timeout
  \* ---- AzureAgent.cleanup_state ----
  cleanPc,           \* position in cleanup_state
  cleanCalls,        \* invocations of cleanup_state so far
  cleanTodo,         \* listed resources the current loop has yet to visit
  cleanCur,          \* the resource whose delete is being polled
  cleanListed,       \* per kind: what this invocation listed
  cleanIssued,       \* <<kind, name>> of the delete calls of this invocation
  cleanPolled,       \* <<kind, name>> of the delete polls that have ended
  cleanTimeouts,     \* <<kind, name>> of the polls that logged a timeout
  cleanEmptyAtEntry, \* the group held no interface, address or network
  cleanPrevClean,    \* the invocation before returned with all deletes done
  cleanPrevDeleted,  \* delete calls of the invocation before
  \* ---- AppScaleTools.run_instances (bring-up) ----
  bringPc,           \* position in run_instances
  bringForce,        \* options.force
  bringCloud,        \* options.infrastructure is set
  bringAsk,          \* not options.disks and not options.test
  bringScp,          \* options.scp is set
  bringNodes,        \* len(node_layout.nodes)
  bringLayoutErrors, \* node_layout.errors(); empty when the layout is valid
  bringMessage,      \* the message of the exception, where it matters
  bringReturned,     \* len(instance_ids) as start_all_nodes returned it
  bringAttached,     \* nodes that were given their addresses and id
  bringInitPolls,    \* is_initialized polls that answered False (saturating)
  bringTrace,        \* the calls made, in order
  bringError,        \* the exception run_instances ended with, or "none"
  localLocations,    \* the locations file of the keyname exists locally
  bringLocationsAtEntry, \* localLocations when run_instances was called
  \* ---- AppScaleTools.terminate_instances (tear-down) ----
  tearPc,            \* position in terminate_instances
  tearInfra,         \* the infrastructure the locations file records
  tearTerminate,     \* options.terminate
  tearConfig,        \* the locations file can be read
  tearKey,           \* the secret key file exists
  tearStop,          \* how terminate_virtualized_cluster ended, or "none"
  tearCloud,         \* how terminate_cloud_infrastructure ended, or "none"
  tearError,         \* the exception terminate_instances ended with
  \* ---- AppScaleTools.upgrade_appscale and run_upgrade_script ----
  upgPc,             \* position of the main thread
  upgNodes,          \* len(node_layout.nodes)
  upgWorker,         \* node -> position of its run_bootstrap thread
  upgOutcome,        \* node -> how its bootstrap ssh ended, or "none"
  upgStarts,         \* node -> number of times its thread was started
  upgJoined,         \* threads joined so far
  error_ips,         \* the list the run_bootstrap threads append to
  upgScriptRan,      \* run_upgrade_script has been called
  watcherPc,         \* position of the async_layout_upgrade thread
  error_bucket,      \* the queue the async_layout_upgrade thread puts to
  last_message,      \* the local of run_upgrade_script
  upgReads,          \* the status reads so far, in order
  upgLog,            \* the lines logged by run_upgrade_script, in order
  upgError,          \* the exception the workflow ended with, or "none"
  \* ---- AppScaleTools.upgrade up to the call of upgrade_appscale or of
  \* ---- run_upgrade_script, with shut_down_appscale_if_running ----
  prePc,             \* position in upgrade
  preTest,           \* options.test
  preKey,            \* the secret key file exists
  preLayoutErrors,   \* node_layout.errors(); empty when the layout is valid
  preLocal,          \* APPSCALE_VERSION
  prePublished,      \* the latest published version of the tools
  preFetched,        \* latest_tools_version() has answered
  preLatest,         \* the local latest_tools
  preInstalled,      \* the version installed on the head node
  preAvailable,      \* the latest release tag
  preCurrent,        \* the outcome of the test of line 819, or "none"
  preTrace,          \* the calls made, in order
  preAnswers,        \* what the user typed at the questions, in order
  preError,          \* the exception upgrade ended with
  \* ---- AppScaleTools.add_instances ----
  addPc,             \* position in add_instances
  addKeys,           \* options.ips.keys(): the roles asked for
  addIps,            \* role -> the ips asked for it; empty for no key
  addXen,            \* the deployment runs on a virtualized cluster
  addToCheck,        \* the ips still to check over SSH
  addTrace,          \* the calls made, in order
  addError,          \* the exception add_instances ended with, or "none"
  \* ---- AzureAgent.get_params_from_args, configure_instance_security ----
  secPc,             \* position in the two calls
  secArgs,           \* the resource group and storage account arguments
  secParams,         \* the parameters get_params_from_args answered
  azureGroups,       \* the resource groups of the subscription
  azureAccounts,     \* the storage accounts, as <<group, account>>
  secKeyFiles,       \* which of the key files of the keyname exist
  secKeysGenerated,  \* calls of LocalState.generate_rsa_key
  azureAtEntry,      \* the groups and accounts before the two calls
  secCalls,          \* the calls made, in order
  secError,          \* the exception the call ended with, or "none"
  \* ---- AppScaleTools.remove_app ----
  remPc,             \* position in remove_app
  remConfirm,        \* options.confirm
  remAnswers,        \* what the user typed at the question
  remQueries,        \* get_all_stats calls made
  remSleeps,         \* sleeps of the port lookup
  remPort,           \* http_port is set
  remWaits,          \* is_port_open calls that answered True
  remTrace,          \* the other calls made, in order
  remError           \* the message of the exception remove_app ended with

varsPoller == <<pollPc, pollKind, pollMax, pollElapsed, pollSleeps,
                pollTimedOut, pollDoneSeen, pollSleepsAtDone>>

varsCloud == <<cloudVnets, cloudIps, cloudNics, cloudVms, cloudIpAssigned>>

varsRun == <<runPc, runCount, runI, runTrace, runTimeouts, runIpWaitRounds,
             runResult>>

varsTerm == <<termPc, termIds, termStarted, termJoined, workerPc,
              workerOutcome, vmDeleteCalls, termTimeoutLog>>

varsClean == <<cleanPc, cleanCalls, cleanTodo, cleanCur, cleanListed,
               cleanIssued, cleanPolled, cleanTimeouts, cleanEmptyAtEntry,
               cleanPrevClean, cleanPrevDeleted>>

varsBring == <<bringPc, bringForce, bringCloud, bringAsk, bringScp,
               bringLayoutErrors, bringMessage,
               bringNodes, bringReturned, bringAttached, bringInitPolls,
               bringTrace, bringError, localLocations, bringLocationsAtEntry>>

varsTear == <<tearPc, tearInfra, tearTerminate, tearConfig, tearKey,
              tearStop, tearCloud, tearError>>

varsUpg == <<upgPc, upgNodes, upgWorker, upgOutcome, upgStarts, upgJoined,
             error_ips, upgScriptRan, watcherPc, error_bucket, last_message,
             upgReads, upgLog, upgError>>

varsPre == <<prePc, preTest, preKey, preLayoutErrors, preLocal, prePublished,
             preFetched, preLatest, preInstalled, preAvailable, preCurrent,
             preTrace, preAnswers, preError>>

\* The workflows modelled after the first three of AppScaleTools.
varsAdd == <<addPc, addKeys, addIps, addXen, addToCheck, addTrace, addError>>

varsSec == <<secPc, secArgs, secParams, azureGroups, azureAccounts,
             secKeyFiles, secKeysGenerated, azureAtEntry, secCalls, secError>>

varsRem == <<remPc, remConfirm, remAnswers, remQueries, remSleeps, remPort,
             remWaits, remTrace, remError>>

varsMore == <<varsPre, varsAdd, varsSec, varsRem>>

varsTools == <<varsBring, varsTear, varsUpg, varsMore>>

vars == <<varsPoller, varsCloud, varsRun, varsTerm, varsClean, varsTools>>

\* What each workflow leaves alone.
notPoller == <<varsCloud, varsRun, varsTerm, varsClean, varsTools>>
notRun == <<varsPoller, varsTerm, varsClean, varsTools>>
notTerm == <<varsPoller, varsRun, varsClean, varsTools>>
notClean == <<varsPoller, varsRun, varsTerm, varsTools>>
varsAgent == <<varsPoller, varsCloud, varsRun, varsTerm, varsClean>>
notBring == <<varsAgent, varsTear, varsUpg, varsMore>>
notTear == <<varsAgent, varsBring, varsUpg, varsMore>>
notUpg == <<varsAgent, varsBring, varsTear, varsMore>>
varsMain == <<varsAgent, varsBring, varsTear, varsUpg>>
notPre == <<varsMain, varsAdd, varsSec, varsRem>>
notAdd == <<varsMain, varsPre, varsSec, varsRem>>
notSec == <<varsMain, varsPre, varsAdd, varsRem>>
notRem == <<varsMain, varsPre, varsAdd, varsSec>>

\* Names of the machines (and of each machine's address and interface).
MachineNames == 0..MaxCount

(***************************************************************************)
(* AzureAgent.sleep_until_update_operation_done and                        *)
(* AzureAgent.sleep_until_delete_operation_done, one step per loop         *)
(* suspension point.                                                       *)
(***************************************************************************)
CloudIdle ==
  /\ cloudVnets = {}
  /\ cloudIps = {}
  /\ cloudNics = {}
  /\ cloudVms = {}
  /\ cloudIpAssigned = {}

RunIdle ==
  /\ runPc = "idle"
  /\ runCount = 0
  /\ runI = 0
  /\ runTrace = <<>>
  /\ runTimeouts = {}
  /\ runIpWaitRounds = 0
  /\ runResult = "none"

TermIdle ==
  /\ termPc = "idle"
  /\ termIds = <<>>
  /\ termStarted = 0
  /\ termJoined = 0
  /\ workerPc = [n \in MachineNames |-> "none"]
  /\ workerOutcome = [n \in MachineNames |-> "none"]
  /\ vmDeleteCalls = [n \in MachineNames |-> 0]
  /\ termTimeoutLog = {}

NothingListed == [kind \in {"nic", "ip", "vnet"} |-> {}]

CleanIdle ==
  /\ cleanPc = "idle"
  /\ cleanCalls = 0
  /\ cleanTodo = {}
  /\ cleanCur = "none"
  /\ cleanListed = NothingListed
  /\ cleanIssued = {}
  /\ cleanPolled = {}
  /\ cleanTimeouts = {}
  /\ cleanEmptyAtEntry = FALSE
  /\ cleanPrevClean = FALSE
  /\ cleanPrevDeleted = 0

BringIdle ==
  /\ bringPc = "idle"
  /\ bringForce = FALSE
  /\ bringCloud = FALSE
  /\ bringAsk = FALSE
  /\ bringScp = FALSE
  /\ bringNodes = 0
  /\ bringLayoutErrors = <<>>
  /\ bringMessage = <<>>
  /\ bringReturned = 0
  /\ bringAttached = 0
  /\ bringInitPolls = 0
  /\ bringTrace = <<>>
  /\ bringError = "none"
  /\ localLocations = FALSE
  /\ bringLocationsAtEntry = FALSE

TearIdle ==
  /\ tearPc = "idle"
  /\ tearInfra = "none"
  /\ tearTerminate = FALSE
  /\ tearConfig = FALSE
  /\ tearKey = FALSE
  /\ tearStop = "none"
  /\ tearCloud = "none"
  /\ tearError = "none"

UpgIdle ==
  /\ upgPc = "idle"
  /\ upgNodes = 0
  /\ upgWorker = [n \in 1..MaxNodes |-> "none"]
  /\ upgOutcome = [n \in 1..MaxNodes |-> "none"]
  /\ upgStarts = [n \in 1..MaxNodes |-> 0]
  /\ upgJoined = 0
  /\ error_ips = <<>>
  /\ upgScriptRan = FALSE
  /\ watcherPc = "idle"
  /\ error_bucket = <<>>
  /\ last_message = "None"
  /\ upgReads = <<>>
  /\ upgLog = <<>>
  /\ upgError = [type |-> "none", message |-> ""]

\* No version.
NoVersion == <<>>

NoError == [type |-> "none", message |-> <<>>]

PreIdle ==
  /\ prePc = "idle"
  /\ preTest = FALSE
  /\ preKey = FALSE
  /\ preLayoutErrors = <<>>
  /\ preLocal = NoVersion
  /\ prePublished = NoVersion
  /\ preFetched = FALSE
  /\ preLatest = NoVersion
  /\ preInstalled = NoVersion
  /\ preAvailable = NoVersion
  /\ preCurrent = "none"
  /\ preTrace = <<>>
  /\ preAnswers = <<>>
  /\ preError = NoError

\* The roles an add-nodes request may name.
Roles == {"master", "appengine", "database"}

AddIdle ==
  /\ addPc = "idle"
  /\ addKeys = {}
  /\ addIps = [r \in Roles |-> <<>>]
  /\ addXen = FALSE
  /\ addToCheck = <<>>
  /\ addTrace = <<>>
  /\ addError = "none"

NoParams == [resource_group |-> "", storage_account |-> "",
             does_exist |-> FALSE]

SecIdle ==
  /\ secPc = "idle"
  /\ secArgs = [resource_group |-> "", storage_account |-> ""]
  /\ secParams = NoParams
  /\ azureGroups = {}
  /\ azureAccounts = {}
  /\ secKeyFiles = {}
  /\ secKeysGenerated = 0
  /\ azureAtEntry = [groups |-> {}, accounts |-> {}]
  /\ secCalls = <<>>
  /\ secError = "none"

RemIdle ==
  /\ remPc = "idle"
  /\ remConfirm = FALSE
  /\ remAnswers = <<>>
  /\ remQueries = 0
  /\ remSleeps = 0
  /\ remPort = FALSE
  /\ remWaits = 0
  /\ remTrace = <<>>
  /\ remError = "none"

MoreIdle == PreIdle /\ AddIdle /\ SecIdle /\ RemIdle

ToolsIdle == BringIdle /\ TearIdle /\ UpgIdle /\ MoreIdle

PollerIdle ==
  /\ pollPc = "idle"
  /\ pollKind = "none"
  /\ pollMax = 0
  /\ pollElapsed = 0
  /\ pollSleeps = 0
  /\ pollTimedOut = FALSE
  /\ pollDoneSeen = FALSE
  /\ pollSleepsAtDone = 0

\* The budget each poller is called with: the update poller always compares
\* against MAX_SLEEP_TIME; the delete poller takes max_sleep from its caller
\* (MAX_VM_CREATION_TIME for machines, MAX_SLEEP_TIME in cleanup_state).
PollBudgets(kind) ==
  IF kind = "update" THEN {MAX_SLEEP_TIME}
  ELSE {MAX_SLEEP_TIME, MAX_VM_CREATION_TIME}

\* time_start = time.time()
sleep_until_operation_done_enter ==
  /\ pollPc = "idle"
  /\ \E kind \in {"update", "delete"} :
       \E budget \in PollBudgets(kind) :
         /\ pollKind' = kind
         /\ pollMax' = budget
  /\ pollPc' = "check"
  /\ UNCHANGED <<pollElapsed, pollSleeps, pollTimedOut, pollDoneSeen,
                 pollSleepsAtDone>>
  /\ UNCHANGED notPoller

\* while not result.done(): the predicate may answer anything.
sleep_until_operation_done_check ==
  /\ pollPc = "check"
  /\ \E answer \in BOOLEAN :
       IF answer
         THEN /\ pollPc' = "returned"
              /\ pollDoneSeen' = TRUE
              /\ pollSleepsAtDone' = pollSleeps
         ELSE /\ pollPc' = "sleep"
              /\ UNCHANGED <<pollDoneSeen, pollSleepsAtDone>>
  /\ UNCHANGED <<pollKind, pollMax, pollElapsed, pollSleeps, pollTimedOut>>
  /\ UNCHANGED notPoller

\* A poller that gives up when the budget is reached, not exceeded.
PollBudgetExceeded_AtBudget(total_sleep_time, max_sleep) ==
  total_sleep_time >= max_sleep

\* The test that ends the loop after a sleep.
PollBudgetExceeded(total_sleep_time, max_sleep) == total_sleep_time > max_sleep

\* time.sleep(SLEEP_TIME); total_sleep_time = time.time() - time_start;
\* if total_sleep_time > max_sleep: log the timeout and break.
sleep_until_operation_done_sleep ==
  /\ pollPc = "sleep"
  /\ \E jitter \in 0..MaxJitter :
       LET total_sleep_time == pollElapsed + SLEEP_TIME + jitter IN
         /\ pollElapsed' = total_sleep_time
         /\ pollSleeps' = pollSleeps + 1
         /\ IF PollBudgetExceeded(total_sleep_time, pollMax)
              THEN /\ pollTimedOut' = TRUE
                   /\ pollPc' = "returned"
              ELSE /\ pollPc' = "check"
                   /\ UNCHANGED pollTimedOut
  /\ UNCHANGED <<pollKind, pollMax, pollDoneSeen, pollSleepsAtDone>>
  /\ UNCHANGED notPoller

\* The whole loop against an operation that completes completeAt seconds
\* after it was issued: the final measurement, and whether the timeout was
\* logged.
RECURSIVE PollLoop(_, _, _)
PollLoop(elapsed, completeAt, max_sleep) ==
  IF completeAt <= elapsed
    THEN [timedOut |-> FALSE, elapsed |-> elapsed]
    ELSE IF PollBudgetExceeded(elapsed + SLEEP_TIME, max_sleep)
      THEN [timedOut |-> TRUE, elapsed |-> elapsed + SLEEP_TIME]
      ELSE PollLoop(elapsed + SLEEP_TIME, completeAt, max_sleep)

\* An operation that is still running when every budget has run out.
Never == MAX_VM_CREATION_TIME + 2 * SLEEP_TIME

\* Completion times an asynchronous Azure operation is given.
OpTimes == {0, SLEEP_TIME, MAX_SLEEP_TIME, MAX_SLEEP_TIME + SLEEP_TIME,
            MAX_VM_CREATION_TIME, Never}

\* sleep_until_update_operation_done(result, resource_name, verbose)
sleep_until_update_operation_done(completeAt) ==
  PollLoop(0, completeAt, MAX_SLEEP_TIME)

\* sleep_until_delete_operation_done(result, resource_name, max_sleep, verbose)
sleep_until_delete_operation_done(completeAt, max_sleep) ==
  PollLoop(0, completeAt, max_sleep)

InitPoller == PollerIdle /\ CloudIdle /\ RunIdle /\ TermIdle /\ CleanIdle /\ ToolsIdle

NextPoller ==
  \/ sleep_until_operation_done_enter
  \/ sleep_until_operation_done_check
  \/ sleep_until_operation_done_sleep

SpecPoller == InitPoller /\ [][NextPoller]_vars

\* The polling thread is never starved: a sleep returns, a check answers.
FairSpecPoller == SpecPoller /\ WF_vars(NextPoller)

\* What the poller has established in every state of a run.
PollerSafe ==
  /\ pollTimedOut <=> pollElapsed > pollMax
  /\ pollTimedOut => pollPc = "returned"
  /\ pollPc = "returned" => (pollDoneSeen <=> ~pollTimedOut)
  /\ pollDoneSeen => pollPc = "returned" /\ pollSleeps = pollSleepsAtDone
  /\ pollSleeps <= (pollMax \div SLEEP_TIME) + 1

\* C2: the poller logs the timeout ("not done") exactly when the measured
\* elapsed time exceeds the wait budget, returns as soon as result.done()
\* first answers True without sleeping again, and the loop ends whatever the
\* predicate answers.
C2_PollerContract ==
  /\ []PollerSafe
  /\ (pollPc = "check") ~> (pollPc = "returned")

\* C2 witness: a machine delete poll that ran out of its budget after
\* several sleeps.
C2_Witness ==
  /\ pollPc = "returned"
  /\ pollTimedOut
  /\ pollKind = "delete"
  /\ pollMax = MAX_VM_CREATION_TIME
  /\ pollSleeps > 1

(***************************************************************************)
(* The resource group, and AzureAgent.run_instances with the helpers it    *)
(* calls: create_virtual_network, create_network_interface,                *)
(* create_virtual_machine, describe_instances.                             *)
(***************************************************************************)
\* The one virtual network of a deployment: parameters[PARAM_GROUP].
Net == "net"

\* The machine a resource group may hold before run_instances is called.
OldMachine == 0

\* Every enumeration of a finite set, as a sequence without repetition: the
\* order in which a list call hands out the resources is Azure's choice.
Orderings(S) ==
  {f \in [1..Cardinality(S) -> S] : \A i, j \in DOMAIN f : f[i] = f[j] => i = j}

Event(op, kind, name) == [op |-> op, kind |-> kind, name |-> name]

\* public_ip.ip_address of a listed public IP resource.
PublicAddress(n) ==
  IF n \in cloudIpAssigned THEN <<"public", n>> ELSE <<"None">>

\* ip_config.private_ip_address of a listed network interface.
PrivateAddress(n) == <<"private", n>>

\* describe_instances: three independent list calls over the resource group.
describe_instances ==
  {[public_ips |-> [i \in DOMAIN ips |-> PublicAddress(ips[i])],
    private_ips |-> [i \in DOMAIN nics |-> PrivateAddress(nics[i])],
    instance_ids |-> ids] :
     ips \in Orderings(cloudIps), nics \in Orderings(cloudNics),
     ids \in Orderings(cloudVms)}

\* run_instances(count, parameters, security_configured) is called.
run_instances_enter ==
  /\ runPc = "idle"
  /\ \E count \in 0..MaxCount : runCount' = count
  /\ runPc' = "vnet_create"
  /\ UNCHANGED <<runI, runTrace, runTimeouts, runIpWaitRounds, runResult>>
  /\ UNCHANGED <<varsCloud, notRun>>

\* create_virtual_network: virtual_networks.create_or_update(...)
create_virtual_network_issue ==
  /\ runPc = "vnet_create"
  /\ cloudVnets' = cloudVnets \cup {Net}
  /\ runTrace' = Append(runTrace, Event("create", "vnet", Net))
  /\ runPc' = "vnet_poll"
  /\ UNCHANGED <<runCount, runI, runTimeouts, runIpWaitRounds, runResult>>
  /\ UNCHANGED <<cloudIps, cloudNics, cloudVms, cloudIpAssigned, notRun>>

\* A create poll whose timeout is raised to the caller.
RunPolled_raising(kind, name, next) ==
  /\ \E completeAt \in OpTimes :
       IF sleep_until_update_operation_done(completeAt).timedOut
         THEN /\ runTimeouts' = runTimeouts \cup {<<kind, name>>}
              /\ runPc' = "raised"
         ELSE /\ runPc' = next
              /\ UNCHANGED runTimeouts
  /\ runTrace' = Append(runTrace, Event("poll", kind, name))
  /\ UNCHANGED <<runCount, runI, runIpWaitRounds, runResult>>
  /\ UNCHANGED <<varsCloud, notRun>>

\* A create poll of run_instances: the timeout is logged, nothing is raised,
\* and the caller goes on to its next statement.
RunPolled(kind, name, next) ==
  /\ \E completeAt \in OpTimes :
       runTimeouts' =
         IF sleep_until_update_operation_done(completeAt).timedOut
           THEN runTimeouts \cup {<<kind, name>>}
           ELSE runTimeouts
  /\ runTrace' = Append(runTrace, Event("poll", kind, name))
  /\ runPc' = next
  /\ UNCHANGED <<runCount, runI, runIpWaitRounds, runResult>>
  /\ UNCHANGED <<varsCloud, notRun>>

\* create_virtual_network: sleep_until_update_operation_done; subnets.get
create_virtual_network_poll ==
  /\ runPc = "vnet_poll"
  /\ RunPolled("vnet", Net, "loop")

\* for _ in range(count): vm_network_name = Haikunator().haikunate()
run_instances_loop ==
  /\ runPc = "loop"
  /\ IF runI < runCount
       THEN /\ runI' = runI + 1
            /\ runPc' = "ip_create"
       ELSE /\ runPc' = "describe"
            /\ UNCHANGED runI
  /\ UNCHANGED <<runCount, runTrace, runTimeouts, runIpWaitRounds, runResult>>
  /\ UNCHANGED <<varsCloud, notRun>>

\* The address create followed at once by the interface create, unpolled.
create_network_interface_ip_issue_unpolled ==
  /\ runPc = "ip_create"
  /\ cloudIps' = cloudIps \cup {runI}
  /\ runTrace' = Append(runTrace, Event("create", "ip", runI))
  /\ runPc' = "nic_create"
  /\ UNCHANGED <<runCount, runI, runTimeouts, runIpWaitRounds, runResult>>
  /\ UNCHANGED <<cloudVnets, cloudNics, cloudVms, cloudIpAssigned, notRun>>

\* create_network_interface: public_ip_addresses.create_or_update(...)
create_network_interface_ip_issue ==
  /\ runPc = "ip_create"
  /\ cloudIps' = cloudIps \cup {runI}
  /\ runTrace' = Append(runTrace, Event("create", "ip", runI))
  /\ runPc' = "ip_poll"
  /\ UNCHANGED <<runCount, runI, runTimeouts, runIpWaitRounds, runResult>>
  /\ UNCHANGED <<cloudVnets, cloudNics, cloudVms, cloudIpAssigned, notRun>>

\* create_network_interface: poll the address; public_ip_addresses.get
create_network_interface_ip_poll ==
  /\ runPc = "ip_poll"
  /\ RunPolled("ip", runI, "nic_create")

\* create_network_interface: network_interfaces.create_or_update(...)
create_network_interface_nic_issue ==
  /\ runPc = "nic_create"
  /\ cloudNics' = cloudNics \cup {runI}
  /\ runTrace' = Append(runTrace, Event("create", "nic", runI))
  /\ runPc' = "nic_poll"
  /\ UNCHANGED <<runCount, runI, runTimeouts, runIpWaitRounds, runResult>>
  /\ UNCHANGED <<cloudVnets, cloudIps, cloudVms, cloudIpAssigned, notRun>>

\* create_network_interface: poll the interface; then network_interfaces.get
create_network_interface_nic_poll ==
  /\ runPc = "nic_poll"
  /\ RunPolled("nic", runI, "vm_create")

\* create_virtual_machine: virtual_machines.create_or_update(...), whose
\* poller is not waited for.
create_virtual_machine_issue ==
  /\ runPc = "vm_create"
  /\ cloudVms' = cloudVms \cup {runI}
  /\ runTrace' = Append(runTrace, Event("create", "vm", runI))
  /\ runIpWaitRounds' = 0
  /\ runPc' = "wait_ip"
  /\ UNCHANGED <<runCount, runI, runTimeouts, runResult>>
  /\ UNCHANGED <<cloudVnets, cloudIps, cloudNics, cloudIpAssigned, notRun>>

\* create_virtual_machine, while True: the address is there, break.
create_virtual_machine_address_found ==
  /\ runPc = "wait_ip"
  /\ runI \in cloudIpAssigned
  /\ runIpWaitRounds' = 0
  /\ runPc' = "loop"
  /\ UNCHANGED <<runCount, runI, runTrace, runTimeouts, runResult>>
  /\ UNCHANGED <<varsCloud, notRun>>

\* create_virtual_machine, while True: no address yet, time.sleep(SLEEP_TIME)
\* and look again; nothing in the loop counts or measures the wait.
create_virtual_machine_address_wait ==
  /\ runPc = "wait_ip"
  /\ runI \notin cloudIpAssigned
  /\ runIpWaitRounds' =
       IF runIpWaitRounds < MaxIpWaitRounds THEN runIpWaitRounds + 1
       ELSE runIpWaitRounds
  /\ UNCHANGED <<runPc, runCount, runI, runTrace, runTimeouts, runResult>>
  /\ UNCHANGED <<varsCloud, notRun>>

\* Azure gives a dynamic public address to a machine; it may never do so.
cloud_assign_address ==
  /\ \E n \in (cloudVms \cap cloudIps) \ cloudIpAssigned :
       cloudIpAssigned' = cloudIpAssigned \cup {n}
  /\ UNCHANGED <<cloudVnets, cloudIps, cloudNics, cloudVms>>
  /\ UNCHANGED <<varsRun, notRun>>

\* public_ips, private_ips, instance_ids = self.describe_instances(parameters)
\* return instance_ids, public_ips, private_ips
run_instances_return ==
  /\ runPc = "describe"
  /\ \E described \in describe_instances : runResult' = described
  /\ runPc' = "returned"
  /\ UNCHANGED <<runCount, runI, runTrace, runTimeouts, runIpWaitRounds>>
  /\ UNCHANGED <<varsCloud, notRun>>

\* The resource group is empty, or holds one machine of an earlier call.
InitCloud ==
  \E old \in {{}, {OldMachine}} :
    /\ cloudVnets = (IF old = {} THEN {} ELSE {Net})
    /\ cloudIps = old
    /\ cloudNics = old
    /\ cloudVms = old
    /\ cloudIpAssigned = old

InitRun == PollerIdle /\ InitCloud /\ RunIdle /\ TermIdle /\ CleanIdle /\ ToolsIdle

NextRun ==
  \/ run_instances_enter
  \/ create_virtual_network_issue
  \/ create_virtual_network_poll
  \/ run_instances_loop
  \/ create_network_interface_ip_issue
  \/ create_network_interface_ip_poll
  \/ create_network_interface_nic_issue
  \/ create_network_interface_nic_poll
  \/ create_virtual_machine_issue
  \/ create_virtual_machine_address_found
  \/ create_virtual_machine_address_wait
  \/ cloud_assign_address
  \/ run_instances_return

SpecRun == InitRun /\ [][NextRun]_vars

\* The sleeps a wait bounded by the machine budget could make at most.
MachineWaitRounds == (MAX_VM_CREATION_TIME \div SLEEP_TIME) + 1

\* C3: the wait for a machine's public address ends when the address is
\* assigned or when the bounded per-machine wait has elapsed, so that
\* run_instances always returns.
C3_AddressWaitBounded ==
  runPc = "wait_ip" => runIpWaitRounds <= MachineWaitRounds

(***************************************************************************)
(* AzureAgent.terminate_instances: one delete thread per listed machine,   *)
(* each running delete_virtual_machine.                                    *)
(***************************************************************************)
\* public_ips, private_ips, instance_ids = self.describe_instances(...)
terminate_instances_enter ==
  /\ termPc = "idle"
  /\ \E described \in describe_instances :
       /\ termIds' = described.instance_ids
       /\ termPc' = IF described.instance_ids = <<>> THEN "join" ELSE "start"
  /\ UNCHANGED <<termStarted, termJoined, workerPc, workerOutcome,
                 vmDeleteCalls, termTimeoutLog>>
  /\ UNCHANGED <<varsCloud, notTerm>>

\* for vm_name in instance_ids: thread = Thread(...); thread.start()
terminate_instances_start_thread ==
  /\ termPc = "start"
  /\ LET vm_name == termIds[termStarted + 1] IN
       workerPc' = [workerPc EXCEPT ![vm_name] = "started"]
  /\ termStarted' = termStarted + 1
  /\ termPc' = IF termStarted + 1 = Len(termIds) THEN "join" ELSE "start"
  /\ UNCHANGED <<termIds, termJoined, workerOutcome, vmDeleteCalls,
                 termTimeoutLog>>
  /\ UNCHANGED <<varsCloud, notTerm>>

\* for x in threads: x.join() -- returns once that thread has ended.
terminate_instances_join ==
  /\ termPc = "join"
  /\ termJoined < Len(termIds)
  /\ workerPc[termIds[termJoined + 1]] \in {"finished", "died"}
  /\ termJoined' = termJoined + 1
  /\ UNCHANGED <<termPc, termIds, termStarted, workerPc, workerOutcome,
                 vmDeleteCalls, termTimeoutLog>>
  /\ UNCHANGED <<varsCloud, notTerm>>

\* A terminate_instances that returns without joining its threads.
terminate_instances_return_unjoined ==
  /\ termPc = "join"
  /\ termPc' = "returned"
  /\ UNCHANGED <<termIds, termStarted, termJoined, workerPc, workerOutcome,
                 vmDeleteCalls, termTimeoutLog>>
  /\ UNCHANGED <<varsCloud, notTerm>>

\* The join loop is over: terminate_instances returns None.
terminate_instances_return ==
  /\ termPc = "join"
  /\ termJoined = Len(termIds)
  /\ termPc' = "returned"
  /\ UNCHANGED <<termIds, termStarted, termJoined, workerPc, workerOutcome,
                 vmDeleteCalls, termTimeoutLog>>
  /\ UNCHANGED <<varsCloud, notTerm>>

\* delete_virtual_machine: result = virtual_machines.delete(...). A
\* CloudError raised by the call ends the thread, not the caller.
delete_virtual_machine_issue ==
  \E vm_name \in MachineNames :
    /\ workerPc[vm_name] = "started"
    /\ vmDeleteCalls' = [vmDeleteCalls EXCEPT ![vm_name] = @ + 1]
    /\ \E accepted \in BOOLEAN :
         IF accepted
           THEN /\ workerPc' = [workerPc EXCEPT ![vm_name] = "polling"]
                /\ UNCHANGED workerOutcome
           ELSE /\ workerPc' = [workerPc EXCEPT ![vm_name] = "died"]
                /\ workerOutcome' = [workerOutcome EXCEPT ![vm_name] = "error"]
    /\ UNCHANGED <<termPc, termIds, termStarted, termJoined, termTimeoutLog>>
    /\ UNCHANGED <<varsCloud, notTerm>>

\* delete_virtual_machine: sleep_until_delete_operation_done(result,
\* resource_name, MAX_VM_CREATION_TIME, verbose), then the thread ends.
delete_virtual_machine_poll ==
  \E vm_name \in MachineNames :
    /\ workerPc[vm_name] = "polling"
    /\ \E completeAt \in OpTimes :
         IF sleep_until_delete_operation_done(completeAt,
                                              MAX_VM_CREATION_TIME).timedOut
           THEN /\ termTimeoutLog' = termTimeoutLog \cup {vm_name}
                /\ workerOutcome' = [workerOutcome EXCEPT ![vm_name] = "timeout"]
                /\ UNCHANGED cloudVms
           ELSE /\ cloudVms' = cloudVms \ {vm_name}
                /\ workerOutcome' = [workerOutcome EXCEPT ![vm_name] = "done"]
                /\ UNCHANGED termTimeoutLog
    /\ workerPc' = [workerPc EXCEPT ![vm_name] = "finished"]
    /\ UNCHANGED <<termPc, termIds, termStarted, termJoined, vmDeleteCalls>>
    /\ UNCHANGED <<cloudVnets, cloudIps, cloudNics, cloudIpAssigned, notTerm>>

\* The resource group holds any set of machines, each with its address and
\* its interface, on the deployment's network.
InitCloudMachines ==
  \E ms \in SUBSET MachineNames :
    /\ cloudVnets = (IF ms = {} THEN {} ELSE {Net})
    /\ cloudIps = ms
    /\ cloudNics = ms
    /\ cloudVms = ms
    /\ cloudIpAssigned = ms

InitTerminate == PollerIdle /\ InitCloudMachines /\ RunIdle /\ TermIdle /\ CleanIdle /\ ToolsIdle

NextTerminate ==
  \/ terminate_instances_enter
  \/ terminate_instances_start_thread
  \/ terminate_instances_join
  \/ terminate_instances_return
  \/ delete_virtual_machine_issue
  \/ delete_virtual_machine_poll

SpecTerminate == InitTerminate /\ [][NextTerminate]_vars

\* The machines terminate_instances listed.
TermListed == {termIds[i] : i \in DOMAIN termIds}

\* C4: exactly one delete worker per listed machine; terminate_instances
\* returns only after every worker has ended; a delete is issued at most once
\* per machine, timed out or not; the timeout is logged exactly for the
\* machines whose own poll ran out, and every other worker has run to its own
\* end.
C4_ParallelDelete ==
  /\ \A n \in MachineNames : vmDeleteCalls[n] <= 1
  /\ \A n \in MachineNames \ TermListed :
       workerPc[n] = "none" /\ vmDeleteCalls[n] = 0
  /\ termTimeoutLog = {n \in MachineNames : workerOutcome[n] = "timeout"}
  /\ termPc = "returned" =>
       \A n \in TermListed :
         /\ workerPc[n] \in {"finished", "died"}
         /\ vmDeleteCalls[n] = 1
         /\ workerOutcome[n] \in {"done", "timeout", "error"}

\* C4 witness: terminate_instances has returned; the delete of one machine
\* timed out and the deletes of two others completed.
C4_Witness ==
  /\ termPc = "returned"
  /\ \E k \in TermListed :
       /\ termTimeoutLog = {k}
       /\ Cardinality(TermListed) >= 3
       /\ \A n \in TermListed \ {k} : workerOutcome[n] = "done"

(***************************************************************************)
(* AzureAgent.cleanup_state: three loops, each over a fresh listing, each  *)
(* deleting one resource and polling that delete before the next.          *)
(***************************************************************************)
\* cleanup_state(parameters) is called; network_interfaces.list(...)
cleanup_state_enter ==
  /\ cleanPc \in {"idle", "returned"}
  /\ cleanCalls < MaxCleanups
  /\ cleanCalls' = cleanCalls + 1
  /\ cleanPrevClean' = (cleanPc = "returned" /\ cleanTimeouts = {})
  /\ cleanPrevDeleted' = Cardinality(cleanIssued)
  /\ cleanEmptyAtEntry' = (cloudNics = {} /\ cloudIps = {} /\ cloudVnets = {})
  /\ cleanTodo' = cloudNics
  /\ cleanListed' = [NothingListed EXCEPT !["nic"] = cloudNics]
  /\ cleanIssued' = {}
  /\ cleanPolled' = {}
  /\ cleanTimeouts' = {}
  /\ cleanCur' = "none"
  /\ cleanPc' = "nic_loop"
  /\ UNCHANGED <<varsCloud, notClean>>

\* One delete call of a loop: result = <client>.delete(resource_group, name).
\* A CloudError raised by the call leaves cleanup_state, which catches
\* nothing.
CleanDelete(kind, thenPc) ==
  /\ \E name \in cleanTodo :
       /\ cleanIssued' = cleanIssued \cup {<<kind, name>>}
       /\ \E accepted \in BOOLEAN :
            IF accepted
              THEN /\ cleanCur' = name
                   /\ cleanPc' = thenPc
              ELSE /\ cleanCur' = "none"
                   /\ cleanPc' = "raised"
  /\ UNCHANGED <<cleanCalls, cleanTodo, cleanListed, cleanPolled,
                 cleanTimeouts, cleanEmptyAtEntry, cleanPrevClean,
                 cleanPrevDeleted>>
  /\ UNCHANGED <<varsCloud, notClean>>

\* sleep_until_delete_operation_done(result, resource_name, MAX_SLEEP_TIME,
\* verbose) of a loop; gone says whether the delete completed in time.
CleanPoll(kind, thenPc, gone) ==
  /\ \E completeAt \in OpTimes :
       cleanTimeouts' =
         IF sleep_until_delete_operation_done(completeAt,
                                              MAX_SLEEP_TIME).timedOut
           THEN cleanTimeouts \cup {<<kind, cleanCur>>}
           ELSE cleanTimeouts
  /\ gone = ~ (<<kind, cleanCur>> \in cleanTimeouts')
  /\ cleanPolled' = cleanPolled \cup {<<kind, cleanCur>>}
  /\ cleanTodo' = cleanTodo \ {cleanCur}
  /\ cleanCur' = "none"
  /\ cleanPc' = thenPc
  /\ UNCHANGED <<cleanCalls, cleanListed, cleanIssued, cleanEmptyAtEntry,
                 cleanPrevClean, cleanPrevDeleted>>
  /\ UNCHANGED notClean

\* for interface in network_interfaces: network_interfaces.delete(...)
cleanup_state_delete_interface ==
  /\ cleanPc = "nic_loop"
  /\ CleanDelete("nic", "nic_poll")

\* ... and the poll of that delete.
cleanup_state_poll_interface ==
  /\ cleanPc = "nic_poll"
  /\ \E gone \in BOOLEAN :
       /\ CleanPoll("nic", "nic_loop", gone)
       /\ cloudNics' = IF gone THEN cloudNics \ {cleanCur} ELSE cloudNics
  /\ UNCHANGED <<cloudVnets, cloudIps, cloudVms, cloudIpAssigned>>

\* A cleanup that turns to the addresses with interfaces still to delete.
cleanup_state_list_addresses_early ==
  /\ cleanPc = "nic_loop"
  /\ cleanTodo' = cloudIps
  /\ cleanListed' = [cleanListed EXCEPT !["ip"] = cloudIps]
  /\ cleanPc' = "ip_loop"
  /\ UNCHANGED <<cleanCalls, cleanCur, cleanIssued, cleanPolled,
                 cleanTimeouts, cleanEmptyAtEntry, cleanPrevClean,
                 cleanPrevDeleted>>
  /\ UNCHANGED <<varsCloud, notClean>>

\* The interface loop is over: public_ip_addresses.list(resource_group)
cleanup_state_list_addresses ==
  /\ cleanPc = "nic_loop"
  /\ cleanTodo = {}
  /\ cleanTodo' = cloudIps
  /\ cleanListed' = [cleanListed EXCEPT !["ip"] = cloudIps]
  /\ cleanPc' = "ip_loop"
  /\ UNCHANGED <<cleanCalls, cleanCur, cleanIssued, cleanPolled,
                 cleanTimeouts, cleanEmptyAtEntry, cleanPrevClean,
                 cleanPrevDeleted>>
  /\ UNCHANGED <<varsCloud, notClean>>

\* for public_ip in public_ip_addresses: public_ip_addresses.delete(...)
cleanup_state_delete_address ==
  /\ cleanPc = "ip_loop"
  /\ CleanDelete("ip", "ip_poll")

\* ... and the poll of that delete.
cleanup_state_poll_address ==
  /\ cleanPc = "ip_poll"
  /\ \E gone \in BOOLEAN :
       /\ CleanPoll("ip", "ip_loop", gone)
       /\ cloudIps' = IF gone THEN cloudIps \ {cleanCur} ELSE cloudIps
       /\ cloudIpAssigned' =
            IF gone THEN cloudIpAssigned \ {cleanCur} ELSE cloudIpAssigned
  /\ UNCHANGED <<cloudVnets, cloudNics, cloudVms>>

\* A cleanup that deletes the deployment's network by name, listed or not.
cleanup_state_list_networks_by_name ==
  /\ cleanPc = "ip_loop"
  /\ cleanTodo = {}
  /\ cleanTodo' = {Net}
  /\ cleanListed' = [cleanListed EXCEPT !["vnet"] = {Net}]
  /\ cleanPc' = "vnet_loop"
  /\ UNCHANGED <<cleanCalls, cleanCur, cleanIssued, cleanPolled,
                 cleanTimeouts, cleanEmptyAtEntry, cleanPrevClean,
                 cleanPrevDeleted>>
  /\ UNCHANGED <<varsCloud, notClean>>

\* The address loop is over: virtual_networks.list(resource_group)
cleanup_state_list_networks ==
  /\ cleanPc = "ip_loop"
  /\ cleanTodo = {}
  /\ cleanTodo' = cloudVnets
  /\ cleanListed' = [cleanListed EXCEPT !["vnet"] = cloudVnets]
  /\ cleanPc' = "vnet_loop"
  /\ UNCHANGED <<cleanCalls, cleanCur, cleanIssued, cleanPolled,
                 cleanTimeouts, cleanEmptyAtEntry, cleanPrevClean,
                 cleanPrevDeleted>>
  /\ UNCHANGED <<varsCloud, notClean>>

\* for network in virtual_networks: virtual_networks.delete(...)
cleanup_state_delete_network ==
  /\ cleanPc = "vnet_loop"
  /\ CleanDelete("vnet", "vnet_poll")

\* ... and the poll of that delete.
cleanup_state_poll_network ==
  /\ cleanPc = "vnet_poll"
  /\ \E gone \in BOOLEAN :
       /\ CleanPoll("vnet", "vnet_loop", gone)
       /\ cloudVnets' = IF gone THEN cloudVnets \ {cleanCur} ELSE cloudVnets
  /\ UNCHANGED <<cloudIps, cloudNics, cloudVms, cloudIpAssigned>>

\* The network loop is over: cleanup_state returns None.
cleanup_state_return ==
  /\ cleanPc = "vnet_loop"
  /\ cleanTodo = {}
  /\ cleanPc' = "returned"
  /\ UNCHANGED <<cleanCalls, cleanTodo, cleanCur, cleanListed, cleanIssued,
                 cleanPolled, cleanTimeouts, cleanEmptyAtEntry,
                 cleanPrevClean, cleanPrevDeleted>>
  /\ UNCHANGED <<varsCloud, notClean>>

\* The resource group as a tear-down finds it once the machines are gone:
\* any interfaces, any addresses, and the network or not.
InitCloudLeftovers ==
  \E nics \in SUBSET (1..MaxLeftovers), ips \in SUBSET (1..MaxLeftovers) :
    \E nets \in SUBSET {Net} :
      /\ cloudVnets = nets
      /\ cloudIps = ips
      /\ cloudNics = nics
      /\ cloudVms = {}
      /\ cloudIpAssigned = {}

InitCleanup ==
  /\ PollerIdle /\ InitCloudLeftovers /\ RunIdle /\ TermIdle /\ CleanIdle
  /\ ToolsIdle

NextCleanup ==
  \/ cleanup_state_enter
  \/ cleanup_state_delete_interface
  \/ cleanup_state_poll_interface
  \/ cleanup_state_list_addresses
  \/ cleanup_state_delete_address
  \/ cleanup_state_poll_address
  \/ cleanup_state_list_networks
  \/ cleanup_state_delete_network
  \/ cleanup_state_poll_network
  \/ cleanup_state_return

SpecCleanup == InitCleanup /\ [][NextCleanup]_vars

\* The delete calls of one kind issued by the current invocation.
CleanIssuedOf(kind) == {c \in cleanIssued : c[1] = kind}

\* Every listed resource of a kind has had its delete issued and polled.
CleanKindFinished(kind) ==
  \A name \in cleanListed[kind] :
    <<kind, name>> \in cleanIssued /\ <<kind, name>> \in cleanPolled

\* C5: no public-address delete is issued before every listed interface has
\* had its delete issued and polled (to completion or to the timeout), and no
\* virtual-network delete before the same holds of every listed address.
C5_DeleteOrder ==
  /\ CleanIssuedOf("ip") # {} => CleanKindFinished("nic")
  /\ CleanIssuedOf("vnet") # {} =>
       CleanKindFinished("nic") /\ CleanKindFinished("ip")
  /\ cleanPc \notin {"raised", "nic_poll", "ip_poll", "vnet_poll"} =>
       cleanIssued = cleanPolled

\* C5 witness: a whole cleanup that deleted two interfaces, two addresses
\* and the network, one of the interface polls having timed out.
C5_Witness ==
  /\ cleanPc = "returned"
  /\ Cardinality(CleanIssuedOf("nic")) >= 2
  /\ Cardinality(CleanIssuedOf("ip")) >= 2
  /\ CleanIssuedOf("vnet") # {}
  /\ \E c \in cleanTimeouts : c[1] = "nic"

\* C6: an invocation that finds no interface, address or network issues no
\* delete call and does not raise; the invocation that directly follows one
\* in which every delete completed is such an invocation.
C6_CleanupIdempotent ==
  /\ cleanEmptyAtEntry => cleanIssued = {} /\ cleanPc # "raised"
  /\ (cleanCalls >= 2 /\ cleanPrevClean) =>
       /\ cleanEmptyAtEntry
       /\ cloudNics = {} /\ cloudIps = {} /\ cloudVnets = {}

\* C6 witness: the second cleanup has returned after a first one that
\* deleted resources, every delete completing.
C6_Witness ==
  /\ cleanCalls = 2
  /\ cleanPrevClean
  /\ cleanPrevDeleted >= 3
  /\ cleanPc = "returned"

(***************************************************************************)
(* AppScaleTools.run_instances: bringing a deployment up.  One action per  *)
(* call the method makes; bringTrace records the calls in order.           *)
(***************************************************************************)

\* LocalState.ensure_appscale_isnt_running raises BadConfigurationException
\* when the locations file of the keyname exists and force is not set.
AppScaleIsRunning(locations_exists, force) == locations_exists /\ ~force

\* The calls that resolve the layout, reach the cloud, or reach a machine or
\* service of the deployment.
LayoutCalls == {"NodeLayout"}
CloudCalls == {"start_all_nodes"}
RemoteCalls == {"remote_log_tools_state", "enable_root_ssh",
                "ensure_machine_is_compatible", "rsync_files",
                "start_head_node", "copy_local_metadata", "is_initialized",
                "collect_appcontroller_crashlog", "does_user_exist",
                "create_user_accounts", "set_admin_role",
                "wait_for_machines_to_finish_loading",
                "sleep_until_port_is_open"}

\* The validation reasons a layout may come with, in the order found.
LayoutErrorLists == {<<>>, <<"no database">>,
                     <<"unknown role", "no database">>}

\* A call that returns: record it and go on.
BringReturn(call, next) ==
  /\ bringTrace' = Append(bringTrace, call)
  /\ bringPc' = next
  /\ UNCHANGED <<bringError, bringMessage>>

\* A call that raises: the exception leaves run_instances, which has no
\* handler around it.
BringRaiseWith(call, exception, message) ==
  /\ bringTrace' = Append(bringTrace, call)
  /\ bringPc' = "raised"
  /\ bringError' = exception
  /\ bringMessage' = message

BringRaise(call, exception) == BringRaiseWith(call, exception, <<>>)

\* A call to a helper that may raise.
BringCall(call, next, exception) ==
  \/ BringReturn(call, next)
  \/ BringRaise(call, exception)

bringOptions == <<bringForce, bringCloud, bringAsk, bringScp,
                  bringLayoutErrors>>
bringLayout == <<bringNodes, bringReturned, bringAttached>>
bringRest == <<bringOptions, bringLayout, bringInitPolls, localLocations,
               bringLocationsAtEntry, notBring>>

make_appscale_directory ==
  /\ bringPc = "start"
  /\ BringReturn("make_appscale_directory", "guard")
  /\ UNCHANGED bringRest

\* The guard called with force always set: it never raises.
ensure_appscale_isnt_running_forced ==
  /\ bringPc = "guard"
  /\ IF AppScaleIsRunning(localLocations, TRUE)
       THEN BringRaise("ensure_appscale_isnt_running",
                       "BadConfigurationException: already running")
       ELSE BringReturn("ensure_appscale_isnt_running", "disks")
  /\ UNCHANGED bringRest

ensure_appscale_isnt_running ==
  /\ bringPc = "guard"
  /\ IF AppScaleIsRunning(localLocations, bringForce)
       THEN BringRaise("ensure_appscale_isnt_running",
                       "BadConfigurationException: already running")
       ELSE BringReturn("ensure_appscale_isnt_running", "disks")
  /\ UNCHANGED bringRest

\* The confirmation is asked only of cloud deployments without disks, test
\* or force; the user may decline, which ends the run.
ensure_user_wants_to_run_without_disks ==
  /\ bringPc = "disks"
  /\ IF bringCloud /\ bringAsk /\ ~bringForce
       THEN BringCall("ensure_user_wants_to_run_without_disks", "log_started",
                      "AppScaleException: declined to run without disks")
       ELSE bringPc' = "log_started" /\ UNCHANGED <<bringTrace, bringError, bringMessage>>
  /\ UNCHANGED bringRest

remote_log_tools_state_started ==
  /\ bringPc = "log_started"
  /\ BringReturn("remote_log_tools_state", "layout")
  /\ UNCHANGED bringRest

\* The message made of the first reason only.
PlacementMessage_First(errors) == <<Head(errors)>>

\* "...placement strategy:\n{0}".format(str(node_layout.errors())): the
\* whole of what errors() answers goes into the message.
PlacementMessage(errors) == errors

\* NodeLayout(options) and is_valid(): an invalid layout ends the run.
NodeLayout_is_valid ==
  /\ bringPc = "layout"
  /\ IF bringLayoutErrors # <<>>
       THEN BringRaiseWith("NodeLayout",
                           "BadConfigurationException: placement",
                           PlacementMessage(bringLayoutErrors))
       ELSE BringReturn("NodeLayout",
                        IF bringCloud THEN "start_nodes" ELSE "compatible")
  /\ UNCHANGED bringRest

bringNotLayout == <<bringOptions, bringInitPolls, localLocations,
                    bringLocationsAtEntry, notBring>>

\* RemoteHelper.start_all_nodes answers three lists, one entry per machine
\* it reports.
start_all_nodes ==
  /\ bringPc = "start_nodes"
  /\ \/ /\ BringRaise("start_all_nodes", "AgentRuntimeException")
        /\ UNCHANGED bringReturned
     \/ /\ BringReturn("start_all_nodes", "attach")
        /\ bringReturned' \in 0..(bringNodes + 1)
  /\ UNCHANGED <<bringNodes, bringAttached, bringNotLayout>>

\* The loop over enumerate(instance_ids): node i gets entry i of each list;
\* an entry past the last node of the layout is an IndexError.
attach_node_addresses ==
  /\ bringPc = "attach"
  /\ IF bringReturned > bringNodes
       THEN /\ bringAttached' = bringNodes
            /\ bringPc' = "raised"
            /\ bringError' = "IndexError"
            /\ bringMessage' = <<>>
       ELSE /\ bringAttached' = bringReturned
            /\ bringPc' = "root_ssh"
            /\ UNCHANGED <<bringError, bringMessage>>
  /\ UNCHANGED <<bringTrace, bringNodes, bringReturned, bringNotLayout>>

enable_root_ssh ==
  /\ bringPc = "root_ssh"
  /\ BringCall("enable_root_ssh", "compatible", "ShellException")
  /\ UNCHANGED bringRest

ensure_machine_is_compatible ==
  /\ bringPc = "compatible"
  /\ BringCall("ensure_machine_is_compatible",
               IF bringScp THEN "rsync" ELSE "head_node",
               "AppScaleException: incompatible machine")
  /\ UNCHANGED bringRest

rsync_files ==
  /\ bringPc = "rsync"
  /\ BringCall("rsync_files", "head_node", "ShellException")
  /\ UNCHANGED bringRest

\* start_head_node with a failure handler that terminates the machines.
start_head_node_terminating ==
  /\ bringPc = "head_node"
  /\ \/ BringReturn("start_head_node", "metadata")
     \/ /\ bringTrace' = bringTrace \o <<"start_head_node",
                                         "terminate_cloud_infrastructure">>
        /\ bringPc' = "raised"
        /\ bringError' = "AppControllerException"
        /\ bringMessage' = <<>>
  /\ UNCHANGED bringRest

start_head_node ==
  /\ bringPc = "head_node"
  /\ BringCall("start_head_node", "metadata", "AppControllerException")
  /\ UNCHANGED bringRest

\* The call of update_local_metadata leaving no file behind.
update_local_metadata_unwritten ==
  /\ bringPc = "metadata"
  /\ BringReturn("update_local_metadata", "copy_metadata")
  /\ UNCHANGED bringRest

\* LocalState.update_local_metadata writes the locations file.
update_local_metadata ==
  /\ bringPc = "metadata"
  /\ BringReturn("update_local_metadata", "copy_metadata")
  /\ localLocations' = TRUE
  /\ UNCHANGED <<bringOptions, bringLayout, bringInitPolls,
                 bringLocationsAtEntry, notBring>>

copy_local_metadata ==
  /\ bringPc = "copy_metadata"
  /\ BringCall("copy_local_metadata", "wait_init", "ShellException")
  /\ UNCHANGED bringRest

bringNotPolls == <<bringOptions, bringLayout, localLocations,
                   bringLocationsAtEntry, notBring>>

\* The wait loop giving up after MaxInitPolls polls that answered False.
is_initialized_bounded ==
  /\ bringPc = "wait_init"
  /\ \/ /\ BringReturn("is_initialized", "probe")
        /\ UNCHANGED bringInitPolls
     \/ /\ bringInitPolls < MaxInitPolls
        /\ bringPc' = "wait_init"
        /\ bringInitPolls' = bringInitPolls + 1
        /\ UNCHANGED <<bringTrace, bringError, bringMessage>>
     \/ /\ bringTrace' = bringTrace \o <<"is_initialized",
                                         "collect_appcontroller_crashlog">>
        /\ bringPc' = "raised"
        /\ bringError' = "AppControllerException"
        /\ bringMessage' = <<>>
        /\ UNCHANGED bringInitPolls
  /\ UNCHANGED bringNotPolls

\* One is_initialized call of the wait loop: True leaves the loop, False
\* sleeps and asks again, socket.error collects the crash log and raises.
is_initialized ==
  /\ bringPc = "wait_init"
  /\ \/ /\ BringReturn("is_initialized", "probe")
        /\ UNCHANGED bringInitPolls
     \/ /\ bringPc' = "wait_init"
        /\ bringInitPolls' = IF bringInitPolls < MaxInitPolls
                               THEN bringInitPolls + 1 ELSE bringInitPolls
        /\ UNCHANGED <<bringTrace, bringError, bringMessage>>
     \/ /\ bringTrace' = bringTrace \o <<"is_initialized",
                                         "collect_appcontroller_crashlog">>
        /\ bringPc' = "raised"
        /\ bringError' = "AppControllerException"
        /\ bringMessage' = <<>>
        /\ UNCHANGED bringInitPolls
  /\ UNCHANGED bringNotPolls

\* The probe of the user service: any exception is logged and slept on, and
\* the run goes on.
does_user_exist ==
  /\ bringPc = "probe"
  /\ \/ BringReturn("does_user_exist", "accounts")
     \/ /\ bringTrace' = bringTrace \o <<"does_user_exist", "sleep">>
        /\ bringPc' = "accounts"
        /\ UNCHANGED <<bringError, bringMessage>>
  /\ UNCHANGED bringRest

create_user_accounts ==
  /\ bringPc = "accounts"
  /\ BringCall("create_user_accounts", "admin_role", "AppControllerException")
  /\ UNCHANGED bringRest

set_admin_role ==
  /\ bringPc = "admin_role"
  /\ BringCall("set_admin_role", "loading", "AppControllerException")
  /\ UNCHANGED bringRest

wait_for_machines_to_finish_loading ==
  /\ bringPc = "loading"
  /\ BringCall("wait_for_machines_to_finish_loading", "port",
               "AppControllerException")
  /\ UNCHANGED bringRest

sleep_until_port_is_open ==
  /\ bringPc = "port"
  /\ BringReturn("sleep_until_port_is_open", "log_finished")
  /\ UNCHANGED bringRest

remote_log_tools_state_finished ==
  /\ bringPc = "log_finished"
  /\ BringReturn("remote_log_tools_state", "done")
  /\ UNCHANGED bringRest

InitBringUp ==
  /\ PollerIdle /\ CloudIdle /\ RunIdle /\ TermIdle /\ CleanIdle
  /\ TearIdle /\ UpgIdle /\ MoreIdle
  /\ bringPc = "start"
  /\ bringForce \in BOOLEAN
  /\ bringCloud \in BOOLEAN
  /\ bringAsk \in BOOLEAN
  /\ bringScp \in BOOLEAN
  /\ bringNodes \in 1..MaxNodes
  /\ bringLayoutErrors \in LayoutErrorLists
  /\ bringReturned = 0
  /\ bringAttached = 0
  /\ bringInitPolls = 0
  /\ bringTrace = <<>>
  /\ bringError = "none"
  /\ bringMessage = <<>>
  /\ localLocations \in BOOLEAN
  /\ bringLocationsAtEntry = localLocations

NextBringUp ==
  \/ make_appscale_directory
  \/ ensure_appscale_isnt_running
  \/ ensure_user_wants_to_run_without_disks
  \/ remote_log_tools_state_started
  \/ NodeLayout_is_valid
  \/ start_all_nodes
  \/ attach_node_addresses
  \/ enable_root_ssh
  \/ ensure_machine_is_compatible
  \/ rsync_files
  \/ start_head_node
  \/ update_local_metadata
  \/ copy_local_metadata
  \/ is_initialized
  \/ does_user_exist
  \/ create_user_accounts
  \/ set_admin_role
  \/ wait_for_machines_to_finish_loading
  \/ sleep_until_port_is_open
  \/ remote_log_tools_state_finished

SpecBringUp == InitBringUp /\ [][NextBringUp]_vars

\* Positions of the trace where the guard was evaluated.
GuardCalls == {i \in 1..Len(bringTrace) :
                 bringTrace[i] = "ensure_appscale_isnt_running"}

GuardRaised == bringError = "BadConfigurationException: already running"

\* C1: the already-running guard is evaluated before every step of bring-up
\* (only the creation of the local state directory precedes it); it raises
\* BadConfigurationException exactly when the locations file of the keyname
\* exists and force is not set; and when it has raised, no layout
\* resolution, cloud call or remote call has been made.
C1_GuardFirst ==
  /\ \A i \in 1..Len(bringTrace) :
       bringTrace[i] \notin {"make_appscale_directory",
                             "ensure_appscale_isnt_running"}
         => \E j \in GuardCalls : j < i
  /\ GuardCalls # {}
       => (GuardRaised <=> (bringLocationsAtEntry /\ ~bringForce))
  /\ GuardRaised
       => /\ bringPc = "raised"
          /\ GuardCalls # {}
          /\ \A i \in 1..Len(bringTrace) :
               bringTrace[i] \notin LayoutCalls \cup CloudCalls \cup RemoteCalls

\* The guard has refused a bring-up.
C1_Witness ==
  /\ GuardRaised
  /\ bringLocationsAtEntry
  /\ ~bringForce
  /\ bringTrace = <<"make_appscale_directory", "ensure_appscale_isnt_running">>

(***************************************************************************)
(* AppScaleTools.terminate_instances: tearing a deployment down.           *)
(***************************************************************************)

\* InfrastructureAgentFactory.VALID_AGENTS, as far as the model tells the
\* cloud infrastructures apart.
VALID_AGENTS == {"ec2", "azure"}

\* What a locations file may record as infrastructure.
Infrastructures == VALID_AGENTS \cup {"xen", "unsupported"}

\* How RemoteHelper.terminate_virtualized_cluster may end: it reads the local
\* metadata and the secret key (IOError, AppScaleException) and stops the
\* services of every node over SSH (ShellException).
StopOutcomes == {"ok", "IOError", "AppScaleException", "ShellException"}

\* except (IOError, AppScaleException): pass
StopFailureSwallowed(outcome) == outcome \in {"IOError", "AppScaleException"}

tearOptions == <<tearInfra, tearTerminate, tearConfig, tearKey>>

\* LocalState.get_infrastructure; an IOError becomes an AppScaleException.
get_infrastructure ==
  /\ tearPc = "start"
  /\ IF tearConfig
       THEN tearPc' = "option" /\ UNCHANGED tearError
       ELSE /\ tearPc' = "raised"
            /\ tearError' = "AppScaleException: cannot find configuration"
  /\ UNCHANGED <<tearOptions, tearStop, tearCloud, notTear>>

terminate_option_check ==
  /\ tearPc = "option"
  /\ IF tearInfra = "xen" /\ tearTerminate
       THEN /\ tearPc' = "raised"
            /\ tearError' = "AppScaleException: terminate invalid for cluster"
       ELSE tearPc' = "key" /\ UNCHANGED tearError
  /\ UNCHANGED <<tearOptions, tearStop, tearCloud, notTear>>

\* The key test made for a virtualized cluster only.
secret_key_check_xen_only ==
  /\ tearPc = "key"
  /\ IF tearInfra = "xen" /\ ~tearKey
       THEN /\ tearPc' = "raised"
            /\ tearError' = "AppScaleException: not running"
       ELSE tearPc' = "stop" /\ UNCHANGED tearError
  /\ UNCHANGED <<tearOptions, tearStop, tearCloud, notTear>>

secret_key_check ==
  /\ tearPc = "key"
  /\ IF (tearInfra = "xen" \/ ~tearTerminate) /\ ~tearKey
       THEN /\ tearPc' = "raised"
            /\ tearError' = "AppScaleException: not running"
       ELSE tearPc' = "stop" /\ UNCHANGED tearError
  /\ UNCHANGED <<tearOptions, tearStop, tearCloud, notTear>>

\* The graceful stop: an exception the handler does not name leaves
\* terminate_instances.
terminate_virtualized_cluster ==
  /\ tearPc = "stop"
  /\ \E outcome \in StopOutcomes :
       /\ tearStop' = outcome
       /\ IF outcome = "ok" \/ StopFailureSwallowed(outcome)
            THEN tearPc' = "cloud" /\ UNCHANGED tearError
            ELSE tearPc' = "raised" /\ tearError' = outcome
  /\ UNCHANGED <<tearOptions, tearCloud, notTear>>

\* The cloud termination, for a cloud infrastructure when asked.
terminate_cloud_infrastructure ==
  /\ tearPc = "cloud"
  /\ IF tearInfra \in VALID_AGENTS /\ tearTerminate
       THEN \E outcome \in {"ok", "AgentRuntimeException"} :
              /\ tearCloud' = outcome
              /\ IF outcome = "ok"
                   THEN tearPc' = "done" /\ UNCHANGED tearError
                   ELSE tearPc' = "raised" /\ tearError' = outcome
       ELSE tearPc' = "done" /\ UNCHANGED <<tearCloud, tearError>>
  /\ UNCHANGED <<tearOptions, tearStop, notTear>>

InitTearDown ==
  /\ PollerIdle /\ CloudIdle /\ RunIdle /\ TermIdle /\ CleanIdle
  /\ BringIdle /\ UpgIdle /\ MoreIdle
  /\ tearPc = "start"
  /\ tearInfra \in Infrastructures
  /\ tearTerminate \in BOOLEAN
  /\ tearConfig \in BOOLEAN
  /\ tearKey \in BOOLEAN
  /\ tearStop = "none"
  /\ tearCloud = "none"
  /\ tearError = "none"

NextTearDown ==
  \/ get_infrastructure
  \/ terminate_option_check
  \/ secret_key_check
  \/ terminate_virtualized_cluster
  \/ terminate_cloud_infrastructure

SpecTearDown == InitTearDown /\ [][NextTearDown]_vars

\* C7: once tear-down has ended, a graceful stop that failed has not kept
\* the cloud termination from running, when the infrastructure is a cloud
\* and termination was asked for.
C7_StopFailureNeverBlocks ==
  (/\ tearPc \in {"done", "raised"}
   /\ tearStop \notin {"none", "ok"}
   /\ tearInfra \in VALID_AGENTS
   /\ tearTerminate)
    => tearCloud # "none"

(***************************************************************************)
(* AppScaleTools.upgrade_appscale with its run_bootstrap threads, and      *)
(* AppScaleTools.run_upgrade_script with its async_layout_upgrade thread.  *)
(***************************************************************************)

UpgNodeSet == 1..upgNodes

\* The main thread's variables, and the threads'.
upgMain == <<upgPc, upgJoined, upgScriptRan>>
upgThreads == <<upgWorker, upgOutcome, upgStarts, error_ips>>
upgScript == <<watcherPc, error_bucket, last_message, upgReads, upgLog,
               upgError>>

\* threads.append(t) for every ip of the layout.
upgrade_appscale_create_threads ==
  /\ upgPc = "create"
  /\ upgWorker' = [n \in 1..MaxNodes |->
                     IF n \in UpgNodeSet THEN "created" ELSE upgWorker[n]]
  /\ upgPc' = "start"
  /\ UNCHANGED <<upgNodes, upgJoined, upgScriptRan, upgOutcome, upgStarts,
                 error_ips, upgScript, notUpg>>

\* x.start(), in list order.
upgrade_appscale_start_thread ==
  /\ upgPc = "start"
  /\ \E n \in UpgNodeSet :
       /\ upgWorker[n] = "created"
       /\ \A m \in 1..(n - 1) : upgWorker[m] # "created"
       /\ upgWorker' = [upgWorker EXCEPT ![n] = "running"]
       /\ upgStarts' = [upgStarts EXCEPT ![n] = @ + 1]
       /\ upgPc' = IF n = upgNodes THEN "join" ELSE "start"
  /\ UNCHANGED <<upgNodes, upgJoined, upgScriptRan, upgOutcome, error_ips,
                 upgScript, notUpg>>

\* RemoteHelper.ssh(ip, keyname, BOOTSTRAP_CMD, verbose) in the thread of
\* node n: it returns, or raises ShellException.
run_bootstrap_ssh(n) ==
  /\ upgWorker[n] = "running"
  /\ \E outcome \in {"ok", "ShellException"} :
       upgOutcome' = [upgOutcome EXCEPT ![n] = outcome]
  /\ upgWorker' = [upgWorker EXCEPT ![n] = "ssh_done"]
  /\ UNCHANGED <<upgNodes, upgMain, upgStarts, error_ips, upgScript, notUpg>>

\* The rest of run_bootstrap: the success line, or the handler that appends
\* the ip to error_ips.
run_bootstrap_return(n) ==
  /\ upgWorker[n] = "ssh_done"
  /\ error_ips' = IF upgOutcome[n] = "ShellException"
                    THEN Append(error_ips, n) ELSE error_ips
  /\ upgWorker' = [upgWorker EXCEPT ![n] = "ended"]
  /\ UNCHANGED <<upgNodes, upgMain, upgOutcome, upgStarts, upgScript, notUpg>>

\* A join that returns whether or not the thread has ended.
upgrade_appscale_join_unwaited ==
  /\ upgPc = "join"
  /\ upgJoined < upgNodes
  /\ upgJoined' = upgJoined + 1
  /\ UNCHANGED <<upgNodes, upgPc, upgScriptRan, upgThreads, upgScript, notUpg>>

\* x.join(), in list order.
upgrade_appscale_join ==
  /\ upgPc = "join"
  /\ upgJoined < upgNodes
  /\ upgWorker[upgJoined + 1] = "ended"
  /\ upgJoined' = upgJoined + 1
  /\ UNCHANGED <<upgNodes, upgPc, upgScriptRan, upgThreads, upgScript, notUpg>>

\* The decision taken as if error_ips were always empty.
upgrade_appscale_decide_always ==
  /\ upgPc = "join"
  /\ upgJoined = upgNodes
  /\ upgPc' = "script"
  /\ upgScriptRan' = TRUE
  /\ UNCHANGED <<upgNodes, upgJoined, upgThreads, upgScript, notUpg>>

\* if not error_ips: cls.run_upgrade_script(options, node_layout)
upgrade_appscale_decide ==
  /\ upgPc = "join"
  /\ upgJoined = upgNodes
  /\ IF error_ips = <<>>
       THEN upgPc' = "script" /\ upgScriptRan' = TRUE
       ELSE upgPc' = "done" /\ UNCHANGED upgScriptRan
  /\ UNCHANGED <<upgNodes, upgJoined, upgThreads, upgScript, notUpg>>

\* A key the status file does not hold.
Absent == "absent"

\* What the status file may hold when it parses as a JSON object.
Statuses == {"inProgress", "complete", "error", Absent}
Messages == {"step1", "step2", "done", "disk full", Absent}
StatusFiles == [status : Statuses, message : Messages]

Raised(type, message) == [type |-> type, message |-> message]

\* if json_status['status'] == 'inProgress', with every status but
\* 'complete' taken as in progress.
IsInProgress_Unless_Complete(status) == status # "complete"

\* if json_status['status'] == 'inProgress'
IsInProgress(status) == status = "inProgress"

\* The comparison with last_message left out: every message is logged.
StatusChanged_Always(message, last) == TRUE

\* if json_status['message'] != last_message
StatusChanged(message, last) == message # last

\* The format test with the 'message' half left out.
InvalidFormat_StatusOnly(json_status) == json_status.status = Absent

\* if 'status' not in json_status or 'message' not in json_status
InvalidFormat(json_status) ==
  json_status.status = Absent \/ json_status.message = Absent

\* The detached thread is started and the loop is entered.
run_upgrade_script_start ==
  /\ upgPc = "script"
  /\ watcherPc' = "running"
  /\ error_bucket' = <<>>
  /\ last_message' = "None"
  /\ upgPc' = "bucket"
  /\ UNCHANGED <<upgNodes, upgJoined, upgScriptRan, upgThreads, upgReads,
                 upgLog, upgError, notUpg>>

\* The thread running the upgrade script over SSH: the command returns, or
\* its ShellException is put into the bucket.
async_layout_upgrade ==
  /\ watcherPc = "running"
  /\ watcherPc' = "ended"
  /\ \E outcome \in {"ok", "ShellException"} :
       error_bucket' = IF outcome = "ok" THEN error_bucket
                       ELSE Append(error_bucket, outcome)
  /\ UNCHANGED <<upgNodes, upgMain, upgThreads, last_message, upgReads,
                 upgLog, upgError, notUpg>>

\* error_bucket.get(block=False): an error found is warned about and the
\* loop goes on.
run_upgrade_script_check_bucket ==
  /\ upgPc = "bucket"
  /\ IF error_bucket # <<>>
       THEN /\ error_bucket' = Tail(error_bucket)
            /\ upgLog' = Append(upgLog,
                                <<"warn", "Error executing upgrade script">>)
       ELSE UNCHANGED <<error_bucket, upgLog>>
  /\ upgPc' = "read"
  /\ UNCHANGED <<upgNodes, upgJoined, upgScriptRan, upgThreads, watcherPc,
                 last_message, upgReads, upgError, notUpg>>

\* One read of the status file, with the break after success left out.
run_upgrade_script_read_unbroken ==
  /\ upgPc = "read"
  /\ Len(upgReads) < MaxReads
  /\ \/ \E failure \in {"ShellException", "ValueError"} :
          /\ upgPc' = "raised"
          /\ upgError' = Raised(failure, "")
          /\ UNCHANGED <<upgReads, upgLog, last_message>>
     \/ \E r \in StatusFiles :
          /\ upgReads' = Append(upgReads, r)
          /\ IF InvalidFormat(r)
               THEN /\ upgPc' = "raised"
                    /\ upgError' = Raised("AppScaleException",
                                          "Invalid status log format")
                    /\ UNCHANGED <<upgLog, last_message>>
             ELSE IF r.status = "complete"
               THEN /\ upgLog' = Append(upgLog, <<"success", r.message>>)
                    /\ upgPc' = "bucket"
                    /\ UNCHANGED <<upgError, last_message>>
             ELSE IF IsInProgress(r.status)
               THEN /\ IF StatusChanged(r.message, last_message)
                         THEN /\ upgLog' = Append(upgLog, <<"log", r.message>>)
                              /\ last_message' = r.message
                         ELSE UNCHANGED <<upgLog, last_message>>
                    /\ upgPc' = "bucket"
                    /\ UNCHANGED upgError
             ELSE /\ upgLog' = Append(upgLog, <<"warn", r.message>>)
                  /\ upgPc' = "raised"
                  /\ upgError' = Raised("AppScaleException", r.message)
                  /\ UNCHANGED last_message
  /\ UNCHANGED <<upgNodes, upgJoined, upgScriptRan, upgThreads, watcherPc,
                 error_bucket, notUpg>>

\* One read of the status file and what the loop does with it.
run_upgrade_script_read ==
  /\ upgPc = "read"
  /\ Len(upgReads) < MaxReads
  /\ \/ \E failure \in {"ShellException", "ValueError"} :
          /\ upgPc' = "raised"
          /\ upgError' = Raised(failure, "")
          /\ UNCHANGED <<upgReads, upgLog, last_message>>
     \/ \E r \in StatusFiles :
          /\ upgReads' = Append(upgReads, r)
          /\ IF InvalidFormat(r)
               THEN /\ upgPc' = "raised"
                    /\ upgError' = Raised("AppScaleException",
                                          "Invalid status log format")
                    /\ UNCHANGED <<upgLog, last_message>>
             ELSE IF r.status = "complete"
               THEN /\ upgLog' = Append(upgLog, <<"success", r.message>>)
                    /\ upgPc' = "done"
                    /\ UNCHANGED <<upgError, last_message>>
             ELSE IF IsInProgress(r.status)
               THEN /\ IF StatusChanged(r.message, last_message)
                         THEN /\ upgLog' = Append(upgLog, <<"log", r.message>>)
                              /\ last_message' = r.message
                         ELSE UNCHANGED <<upgLog, last_message>>
                    /\ upgPc' = "bucket"
                    /\ UNCHANGED upgError
             ELSE /\ upgLog' = Append(upgLog, <<"warn", r.message>>)
                  /\ upgPc' = "raised"
                  /\ upgError' = Raised("AppScaleException", r.message)
                  /\ UNCHANGED last_message
  /\ UNCHANGED <<upgNodes, upgJoined, upgScriptRan, upgThreads, watcherPc,
                 error_bucket, notUpg>>

InitUpgrade ==
  /\ PollerIdle /\ CloudIdle /\ RunIdle /\ TermIdle /\ CleanIdle
  /\ BringIdle /\ TearIdle /\ MoreIdle
  /\ upgPc = "create"
  /\ upgNodes \in 1..MaxNodes
  /\ upgWorker = [n \in 1..MaxNodes |-> "none"]
  /\ upgOutcome = [n \in 1..MaxNodes |-> "none"]
  /\ upgStarts = [n \in 1..MaxNodes |-> 0]
  /\ upgJoined = 0
  /\ error_ips = <<>>
  /\ upgScriptRan = FALSE
  /\ watcherPc = "idle"
  /\ error_bucket = <<>>
  /\ last_message = "None"
  /\ upgReads = <<>>
  /\ upgLog = <<>>
  /\ upgError = Raised("none", "")

NextUpgrade ==
  \/ upgrade_appscale_create_threads
  \/ upgrade_appscale_start_thread
  \/ \E n \in UpgNodeSet : run_bootstrap_ssh(n)
  \/ \E n \in UpgNodeSet : run_bootstrap_return(n)
  \/ upgrade_appscale_join
  \/ upgrade_appscale_decide
  \/ run_upgrade_script_start
  \/ async_layout_upgrade
  \/ run_upgrade_script_check_bucket
  \/ run_upgrade_script_read

SpecUpgrade == InitUpgrade /\ [][NextUpgrade]_vars

\* The lines run_upgrade_script logged for status messages.
StatusLines == SelectSeq(upgLog, LAMBDA l : l[1] \in {"log", "success"})

WellFormed(r) == r.status # Absent /\ r.message # Absent

\* The reads that call for a line: a complete one, and an in-progress one
\* whose message differs from that of the read before it.
LinePoints ==
  {i \in 1..Len(upgReads) :
     /\ WellFormed(upgReads[i])
     /\ \/ upgReads[i].status = "complete"
        \/ /\ upgReads[i].status = "inProgress"
           /\ i > 1 => upgReads[i - 1].message # upgReads[i].message}

LinePoint(k) ==
  CHOOSE i \in LinePoints : Cardinality({j \in LinePoints : j <= i}) = k

InProgressRead(message) == [status |-> "inProgress", message |-> message]

StepsThenDone ==
  <<InProgressRead("step1"), InProgressRead("step1"),
    InProgressRead("step2"), [status |-> "complete", message |-> "done"]>>

\* C8: every in-progress message is logged once per run of equal reads and
\* a complete read logs success and ends the loop; the reads step1, step1,
\* step2, done log step1, step2 and then success, and the loop has ended.
C8_StatusLoggedOnce ==
  /\ Len(StatusLines) = Cardinality(LinePoints)
  /\ \A k \in 1..Len(StatusLines) :
       StatusLines[k] =
         <<IF upgReads[LinePoint(k)].status = "complete"
             THEN "success" ELSE "log",
           upgReads[LinePoint(k)].message>>
  /\ \A i \in 1..Len(upgReads) :
       (WellFormed(upgReads[i]) /\ upgReads[i].status = "complete")
         => i = Len(upgReads) /\ upgPc = "done"
  /\ upgReads = StepsThenDone
       => /\ StatusLines = <<<<"log", "step1">>, <<"log", "step2">>,
                             <<"success", "done">>>>
          /\ upgPc = "done"

\* The four reads of the example have been made.
C8_Witness == upgReads = StepsThenDone /\ upgPc = "done"

\* The reads whose status is neither in progress nor complete.
ErrorReads ==
  {i \in 1..Len(upgReads) :
     /\ WellFormed(upgReads[i])
     /\ upgReads[i].status \notin {"inProgress", "complete"}}

\* C9: a status read that is neither in progress nor complete is the last
\* read of the run, and the run has raised an AppScaleException carrying
\* exactly the message of that read.
C9_OtherStatusRaises ==
  \A i \in ErrorReads :
    /\ i = Len(upgReads)
    /\ upgPc = "raised"
    /\ upgError = Raised("AppScaleException", upgReads[i].message)

\* An error status was read after an in-progress one.
C9_Witness ==
  /\ Len(upgReads) = 2
  /\ upgReads[1] = InProgressRead("step1")
  /\ upgReads[2] = [status |-> "error", message |-> "disk full"]
  /\ upgError = Raised("AppScaleException", "disk full")

\* upgrade_appscale has taken its decision.
UpgDecided == upgPc \in {"script", "bucket", "read", "done", "raised"}

FailedNodes == {n \in UpgNodeSet : upgOutcome[n] = "ShellException"}

\* C10: every node gets one bootstrap thread, started once; by the time
\* the decision is taken every thread has run its bootstrap to the end,
\* whatever the outcome on the other nodes; and the upgrade script is run
\* if and only if no bootstrap failed.
C10_BootstrapFanOut ==
  /\ \A n \in 1..MaxNodes : upgStarts[n] <= 1
  /\ \A n \in 1..MaxNodes : n \notin UpgNodeSet => upgWorker[n] = "none"
  /\ upgPc \notin {"idle", "create"}
       => \A n \in UpgNodeSet : upgWorker[n] # "none"
  /\ UpgDecided
       => /\ \A n \in UpgNodeSet :
               /\ upgStarts[n] = 1
               /\ upgWorker[n] = "ended"
               /\ upgOutcome[n] \in {"ok", "ShellException"}
          /\ upgScriptRan <=> FailedNodes = {}

\* One bootstrap failed, another succeeded, and the script was not run.
C10_Witness ==
  /\ UpgDecided
  /\ FailedNodes # {}
  /\ \E n \in UpgNodeSet : upgOutcome[n] = "ok"
  /\ ~upgScriptRan

\* C11: when a bootstrap has failed, upgrade_appscale ends by raising an
\* error to its caller, after every bootstrap thread was joined; it does
\* not return normally.
C11_FailureRaisedAfterJoin ==
  (FailedNodes # {} /\ upgPc \in {"done", "raised"})
    => /\ upgPc = "raised"
       /\ upgError.type # "none"
       /\ upgJoined = upgNodes

(***************************************************************************)
(* AppScaleTools.upgrade, up to its call of upgrade_appscale or of         *)
(* run_upgrade_script, and shut_down_appscale_if_running.  Versions are    *)
(* strings in the program: a version is kept as its numbers and turned     *)
(* into its string where the program compares.                             *)
(***************************************************************************)

\* The versions tried: 3.9.0, 3.9.1, 3.10.0 and 3.10.1.
Versions == {<<3, minor, patch>> : minor \in {9, 10}, patch \in {0, 1}}

\* The decimal digits of n, as character codes.
RECURSIVE Digits(_)
Digits(n) ==
  IF n < 10 THEN <<48 + n>> ELSE Digits(n \div 10) \o <<48 + (n % 10)>>

\* '.'.join of the numbers of a version, as character codes.
VersionString(v) ==
  Digits(v[1]) \o <<46>> \o Digits(v[2]) \o <<46>> \o Digits(v[3])

\* a > b on two strings: by the first character that differs, a proper
\* prefix being the smaller.
RECURSIVE StringGreater(_, _)
StringGreater(a, b) ==
  IF a = <<>> THEN FALSE
  ELSE IF b = <<>> THEN TRUE
  ELSE IF Head(a) # Head(b) THEN Head(a) > Head(b)
  ELSE StringGreater(Tail(a), Tail(b))

\* 'Your ips_layout is invalid:\n{}'.format(node_layout.errors())
InvalidLayoutMessage(errors) == errors

\* What may be typed at a question, as character codes: nothing, y, Y,
\* yes, YeS, n, no, and yes followed by a space.
Responses == {<<>>, <<121>>, <<89>>, <<121, 101, 115>>, <<89, 101, 83>>,
              <<110>>, <<110, 111>>, <<121, 101, 115, 32>>}

\* response.lower()
Lower(response) ==
  [i \in DOMAIN response |->
     IF response[i] \in 65..90 THEN response[i] + 32 ELSE response[i]]

\* The test taken the other way round: everything but n and no agrees.
Confirmed_UnlessNo(response) ==
  Lower(response) \notin {<<110>>, <<110, 111>>}

\* not (response.lower() not in ['y', 'yes'])
Confirmed(response) == Lower(response) \in {<<121>>, <<121, 101, 115>>}

\* One raw_input: the question, what was typed, and the calls made so far.
Answer(prompt, response, trace) ==
  [prompt |-> prompt, response |-> response, at |-> Len(trace)]

PreRaise(type, message) ==
  /\ prePc' = "raised"
  /\ preError' = [type |-> type, message |-> message]

preInputs == <<preTest, preKey, preLayoutErrors, preLocal, prePublished,
               preInstalled, preAvailable>>

\* node_layout = NodeLayout(options); is_valid() or BadConfigurationException
\* with node_layout.errors().
upgrade_node_layout ==
  /\ prePc = "layout"
  /\ preTrace' = Append(preTrace, "NodeLayout")
  /\ IF preLayoutErrors # <<>>
       THEN PreRaise("BadConfigurationException",
                     InvalidLayoutMessage(preLayoutErrors))
       ELSE prePc' = "tools" /\ UNCHANGED preError
  /\ UNCHANGED <<preInputs, preAnswers, preFetched, preLatest, preCurrent, notPre>>

\* latest_tools_version() with a handler that gives up when it fails.
upgrade_latest_tools_version_aborting ==
  /\ prePc = "tools"
  /\ preTrace' = Append(preTrace, "latest_tools_version")
  /\ \/ /\ preFetched' = TRUE
        /\ preLatest' = prePublished
        /\ prePc' = "tools_check"
        /\ UNCHANGED preError
     \/ /\ UNCHANGED <<preFetched, preLatest>>
        /\ PreRaise("AppScaleException", <<"Cancelled AppScale upgrade.">>)
  /\ UNCHANGED <<preInputs, preAnswers, preCurrent, notPre>>

\* latest_tools_version(): when it fails the user is asked, unless
\* options.test, and latest_tools stays APPSCALE_VERSION.
upgrade_latest_tools_version ==
  /\ prePc = "tools"
  /\ preTrace' = Append(preTrace, "latest_tools_version")
  /\ \/ /\ preFetched' = TRUE
        /\ preLatest' = prePublished
        /\ prePc' = "tools_check"
        /\ UNCHANGED preError
        /\ UNCHANGED preAnswers
     \/ /\ UNCHANGED <<preFetched, preLatest>>
        /\ IF preTest
             THEN prePc' = "tools_check" /\ UNCHANGED <<preError, preAnswers>>
             ELSE \E response \in Responses :
                    /\ preAnswers' =
                         Append(preAnswers,
                                Answer("continue", response, preTrace'))
                    /\ IF Confirmed(response)
                         THEN prePc' = "tools_check" /\ UNCHANGED preError
                         ELSE PreRaise("AppScaleException",
                                       <<"Cancelled AppScale upgrade.">>)
  /\ UNCHANGED <<preInputs, preCurrent, notPre>>

\* if latest_tools > APPSCALE_VERSION: raise
upgrade_tools_check ==
  /\ prePc = "tools_check"
  /\ IF StringGreater(VersionString(preLatest), VersionString(preLocal))
       THEN PreRaise("AppScaleException", <<"newer tools available">>)
       ELSE prePc' = "available" /\ UNCHANGED preError
  /\ UNCHANGED <<preInputs, preAnswers, preFetched, preLatest, preCurrent, preTrace,
                 notPre>>

\* cls.get_upgrade_version_available(): the tags of the release repository.
upgrade_get_upgrade_version_available ==
  /\ prePc = "available"
  /\ preTrace' = Append(preTrace, "get_upgrade_version_available")
  /\ \/ prePc' = "installed" /\ UNCHANGED preError
     \/ PreRaise("URLError", <<>>)
  /\ UNCHANGED <<preInputs, preAnswers, preFetched, preLatest, preCurrent, notPre>>

\* RemoteHelper.get_host_appscale_version(master_ip, ...)
upgrade_get_host_appscale_version ==
  /\ prePc = "installed"
  /\ preTrace' = Append(preTrace, "get_host_appscale_version")
  /\ \/ prePc' = "compare" /\ UNCHANGED preError
     \/ PreRaise("ShellException", <<>>)
  /\ UNCHANGED <<preInputs, preAnswers, preFetched, preLatest, preCurrent, notPre>>

\* The comparison followed at once by the call, the shut-down left out.
upgrade_compare_versions_online ==
  /\ prePc = "compare"
  /\ preCurrent' =
       IF ~StringGreater(VersionString(preAvailable),
                         VersionString(preInstalled))
         THEN "current" ELSE "behind"
  /\ prePc' = "call"
  /\ UNCHANGED <<preInputs, preAnswers, preFetched, preLatest, preTrace, preError,
                 notPre>>

\* if current_version >= upgrade_version_available
upgrade_compare_versions ==
  /\ prePc = "compare"
  /\ preCurrent' =
       IF ~StringGreater(VersionString(preAvailable),
                         VersionString(preInstalled))
         THEN "current" ELSE "behind"
  /\ prePc' = "shut_down"
  /\ UNCHANGED <<preInputs, preAnswers, preFetched, preLatest, preTrace, preError,
                 notPre>>

\* shut_down_appscale_if_running: with a secret key the deployment is torn
\* down through terminate_instances, after the user agreed (not asked under
\* options.test); without one only the question is asked.
shut_down_appscale_if_running ==
  /\ prePc = "shut_down"
  /\ \E response \in (IF preTest THEN {<<>>} ELSE Responses) :
       /\ preAnswers' =
            IF preTest THEN preAnswers
            ELSE Append(preAnswers,
                        Answer(IF preKey THEN "shut down" ELSE "proceed",
                               response, preTrace))
       /\ IF ~(preTest \/ Confirmed(response))
            THEN /\ PreRaise("AppScaleException",
                             <<"Cancelled AppScale upgrade.">>)
                 /\ UNCHANGED preTrace
            ELSE IF preKey
              THEN /\ preTrace' = Append(preTrace, "terminate_instances")
                   /\ \/ prePc' = "call" /\ UNCHANGED preError
                      \/ PreRaise("AppScaleException", <<>>)
              ELSE prePc' = "call" /\ UNCHANGED <<preTrace, preError>>
  /\ UNCHANGED <<preInputs, preFetched, preLatest, preCurrent, notPre>>

\* cls.run_upgrade_script(options, node_layout) when the deployment is up to
\* date, cls.upgrade_appscale(options, node_layout) otherwise.
upgrade_call ==
  /\ prePc = "call"
  /\ prePc' = IF preCurrent = "current"
                THEN "run_upgrade_script" ELSE "upgrade_appscale"
  /\ preTrace' = Append(preTrace, prePc')
  /\ UNCHANGED <<preInputs, preAnswers, preFetched, preLatest, preCurrent, preError,
                 notPre>>

InitUpgradePreflight ==
  /\ PollerIdle /\ CloudIdle /\ RunIdle /\ TermIdle /\ CleanIdle
  /\ BringIdle /\ TearIdle /\ UpgIdle /\ AddIdle /\ SecIdle /\ RemIdle
  /\ prePc = "layout"
  /\ preTest \in BOOLEAN
  /\ preKey \in BOOLEAN
  /\ preLayoutErrors \in LayoutErrorLists
  /\ preLocal \in Versions
  /\ prePublished \in Versions
  /\ preFetched = FALSE
  /\ preLatest = preLocal
  /\ preInstalled \in Versions
  /\ preAvailable \in Versions
  /\ preCurrent = "none"
  /\ preTrace = <<>>
  /\ preAnswers = <<>>
  /\ preError = NoError

NextUpgradePreflight ==
  \/ upgrade_node_layout
  \/ upgrade_latest_tools_version
  \/ upgrade_tools_check
  \/ upgrade_get_upgrade_version_available
  \/ upgrade_get_host_appscale_version
  \/ upgrade_compare_versions
  \/ shut_down_appscale_if_running
  \/ upgrade_call

SpecUpgradePreflight == InitUpgradePreflight /\ [][NextUpgradePreflight]_vars

\* a is newer than b, as dotted sequences of numbers.
VersionNewer(a, b) ==
  \/ a[1] > b[1]
  \/ a[1] = b[1] /\ a[2] > b[2]
  \/ a[1] = b[1] /\ a[2] = b[2] /\ a[3] > b[3]

PreCalled(call) == \E i \in 1..Len(preTrace) : preTrace[i] = call

ToolsBehindRaised ==
  preError = [type |-> "AppScaleException",
              message |-> <<"newer tools available">>]

\* C12: once the published version of the tools was fetched and compared,
\* upgrade has aborted exactly when that version is newer than the local
\* one as a dotted sequence of numbers, and it aborted before contacting
\* the cluster.
C12_AbortsIffToolsBehind ==
  /\ ToolsBehindRaised
       => /\ ~PreCalled("get_host_appscale_version")
          /\ ~PreCalled("terminate_instances")
  /\ (preFetched /\ prePc # "tools_check")
       => (ToolsBehindRaised <=> VersionNewer(prePublished, preLocal))

\* C13: when the installed version is not older than the latest release,
\* upgrade goes to run_upgrade_script without having shut the deployment
\* down and without upgrade_appscale.
C13_CurrentSkipsCodeUpdate ==
  (/\ prePc \in {"run_upgrade_script", "upgrade_appscale"}
   /\ ~VersionNewer(preAvailable, preInstalled))
    => /\ prePc = "run_upgrade_script"
       /\ ~PreCalled("terminate_instances")

(***************************************************************************)
(* Either workflow that validates a layout: run_instances or upgrade.      *)
(***************************************************************************)
InitLayoutUser == InitBringUp \/ InitUpgradePreflight

NextLayoutUser == NextBringUp \/ NextUpgradePreflight

SpecLayoutUser == InitLayoutUser /\ [][NextLayoutUser]_vars

\* Every reason of errors is in message.
CarriesAll(message, errors) ==
  \A i \in 1..Len(errors) : \E j \in 1..Len(message) : message[j] = errors[i]

\* Commands run on the machines of the deployment.
RemoteCommands == RemoteCalls \ {"remote_log_tools_state"}

BringCalled(calls) == \E i \in 1..Len(bringTrace) : bringTrace[i] \in calls

\* C14: a layout that fails validation ends run_instances, and upgrade, with
\* a BadConfigurationException whose message holds every validation
\* reason, before any machine is started in the cloud and before any
\* command is run on a machine.
C14_InvalidLayoutReported ==
  /\ (bringLayoutErrors # <<>> /\ BringCalled(LayoutCalls))
       => /\ bringPc = "raised"
          /\ bringError = "BadConfigurationException: placement"
          /\ CarriesAll(bringMessage, bringLayoutErrors)
  /\ bringLayoutErrors # <<>> => ~BringCalled(CloudCalls \cup RemoteCommands)
  /\ (preLayoutErrors # <<>> /\ prePc # "layout")
       => /\ prePc = "raised"
          /\ preError.type = "BadConfigurationException"
          /\ CarriesAll(preError.message, preLayoutErrors)
          /\ preTrace = <<"NodeLayout">>

\* A layout with two reasons was refused by run_instances.
C14_Witness ==
  /\ bringError = "BadConfigurationException: placement"
  /\ Len(bringLayoutErrors) = 2
  /\ bringMessage = bringLayoutErrors

\* A layout with two reasons was refused by upgrade.
C14_WitnessUpgrade ==
  /\ preError.type = "BadConfigurationException"
  /\ Len(preLayoutErrors) = 2

\* The positions of the trace of bring-up that hold the call.
BringAt(call) == {i \in 1..Len(bringTrace) : bringTrace[i] = call}

\* C15: the wait for the head node can always poll once more, however many
\* polls answered False; the poll that answers True is followed by the
\* set-up of the accounts; a poll that raises socket.error is followed by
\* the collection of the crash log and ends run_instances with an
\* AppControllerException, with no poll and no step after it.
C15_InitWait ==
  /\ bringPc = "wait_init" => ENABLED (is_initialized /\ bringPc' = "wait_init")
  /\ bringPc = "wait_init" => ENABLED (is_initialized /\ bringPc' = "probe")
  /\ Cardinality(BringAt("is_initialized")) <= 1
  /\ \A i \in BringAt("is_initialized") :
       /\ bringPc # "wait_init"
       /\ i = Len(bringTrace) => bringPc = "probe"
       /\ i < Len(bringTrace)
            => bringTrace[i + 1] \in {"does_user_exist",
                                      "collect_appcontroller_crashlog"}
  /\ \A i \in BringAt("collect_appcontroller_crashlog") :
       /\ i = Len(bringTrace)
       /\ i > 1 /\ bringTrace[i - 1] = "is_initialized"
       /\ bringPc = "raised"
       /\ bringError = "AppControllerException"
  /\ BringCalled({"create_user_accounts"}) => BringAt("is_initialized") # {}

\* The head node answered False as often as is counted, then the poll
\* raised socket.error.
C15_Witness ==
  /\ bringInitPolls = MaxInitPolls
  /\ bringPc = "raised"
  /\ BringAt("collect_appcontroller_crashlog") = {Len(bringTrace)}

\* The calls of bring-up from the wait for the head node on.
AfterHeadNodeCalls == {"copy_local_metadata", "is_initialized",
                       "collect_appcontroller_crashlog", "does_user_exist",
                       "create_user_accounts", "set_admin_role",
                       "wait_for_machines_to_finish_loading",
                       "sleep_until_port_is_open"}

\* C16 as stated: the metadata record is written only after the nodes have
\* finished loading and the dashboard port is open, and a bring-up that
\* failed has written none.
C16_MetadataAfterLoading ==
  /\ \A i \in BringAt("update_local_metadata") :
       \E j \in BringAt("sleep_until_port_is_open") : j < i
  /\ bringPc = "raised" => BringAt("update_local_metadata") = {}

\* C16, amended: the metadata record is written at most once per bring-up,
\* exactly once in one that succeeds, right after start_head_node returned
\* and before the wait for the head node and every later call; a bring-up
\* that failed up to start_head_node has written none, one that failed
\* later has left it written.
C16_MetadataAfterHeadNode ==
  /\ Cardinality(BringAt("update_local_metadata")) <= 1
  /\ bringPc = "done" => BringAt("update_local_metadata") # {}
  /\ \A i \in BringAt("update_local_metadata") :
       /\ i > 1 /\ bringTrace[i - 1] = "start_head_node"
       /\ localLocations
  /\ \A j \in 1..Len(bringTrace) :
       bringTrace[j] \in AfterHeadNodeCalls
         => \E i \in BringAt("update_local_metadata") : i < j
  /\ BringAt("update_local_metadata") = {}
       => localLocations = bringLocationsAtEntry

\* A bring-up that had no metadata at entry failed while waiting for the
\* head node, and the metadata record is there.
C16_Witness ==
  /\ bringPc = "raised"
  /\ bringError = "AppControllerException"
  /\ BringAt("collect_appcontroller_crashlog") # {}
  /\ ~bringLocationsAtEntry
  /\ localLocations

\* The calls of steps 2 to 6 of bring-up.
EarlyCalls == {"NodeLayout", "start_all_nodes", "enable_root_ssh",
               "ensure_machine_is_compatible", "rsync_files",
               "start_head_node"}

\* The calls that would give back what bring-up created.
TerminationCalls == {"terminate_instances", "cleanup_state",
                     "terminate_cloud_infrastructure",
                     "terminate_virtualized_cluster"}

\* C17: a bring-up that failed in layout resolution, cloud provisioning,
\* root SSH enablement, code sync or head node start has ended with the
\* error, has made no later call, and has made no call that terminates
\* machines or cleans up; and nothing follows.
C17_EarlyFailureAborts ==
  (/\ bringPc = "raised"
   /\ BringCalled(LayoutCalls)
   /\ ~BringCalled({"update_local_metadata"}))
    => /\ bringError # "none"
       /\ bringTrace[Len(bringTrace)] \in EarlyCalls
       /\ ~BringCalled(AfterHeadNodeCalls \cup {"update_local_metadata"})
       /\ ~BringCalled(TerminationCalls)
       /\ Cardinality(BringAt(bringTrace[Len(bringTrace)])) = 1
       /\ ~ENABLED NextBringUp

\* The head node failed to start on machines bring-up had started.
C17_Witness ==
  /\ bringPc = "raised"
  /\ BringCalled(CloudCalls)
  /\ bringTrace[Len(bringTrace)] = "start_head_node"

(***************************************************************************)
(* AppScaleTools.add_instances.                                            *)
(***************************************************************************)

\* The lists of ips a role may be asked with.
IpLists == {<<>>, <<1>>, <<1, 2>>}

\* The order in which options.ips.values() is gone through.
RoleSeq == <<"master", "appengine", "database">>

\* ips_to_check: the lists of all keys, one after the other.
RECURSIVE IpsToCheck(_)
IpsToCheck(roles) ==
  IF roles = <<>> THEN <<>>
  ELSE (IF Head(roles) \in addKeys THEN addIps[Head(roles)] ELSE <<>>)
         \o IpsToCheck(Tail(roles))

addRequest == <<addKeys, addIps, addXen>>

\* add_instances without the test for the master role.
add_instances_check_master_skipped ==
  /\ addPc = "start"
  /\ addPc' = "layout"
  /\ UNCHANGED <<addRequest, addToCheck, addTrace, addError, notAdd>>

\* if 'master' in options.ips.keys(): raise BadConfigurationException
add_instances_check_master ==
  /\ addPc = "start"
  /\ IF "master" \in addKeys
       THEN addPc' = "raised" /\ addError' = "BadConfigurationException"
       ELSE addPc' = "layout" /\ UNCHANGED addError
  /\ UNCHANGED <<addRequest, addToCheck, addTrace, notAdd>>

\* additional_nodes_layout = NodeLayout(options)
add_instances_layout ==
  /\ addPc = "layout"
  /\ addTrace' = Append(addTrace, "NodeLayout")
  /\ addPc' = "infrastructure"
  /\ UNCHANGED <<addRequest, addToCheck, addError, notAdd>>

\* On a virtualized cluster every ip asked for is checked over SSH.
add_instances_infrastructure ==
  /\ addPc = "infrastructure"
  /\ addTrace' = Append(addTrace, "get_infrastructure_option")
  /\ IF addXen
       THEN addToCheck' = IpsToCheck(RoleSeq) /\ addPc' = "ssh"
       ELSE addPc' = "send" /\ UNCHANGED addToCheck
  /\ UNCHANGED <<addRequest, addError, notAdd>>

\* RemoteHelper.ssh(ip, keyname, "ls", verbose) for the next ip to check.
add_instances_ssh ==
  /\ addPc = "ssh"
  /\ IF addToCheck = <<>>
       THEN addPc' = "send" /\ UNCHANGED <<addToCheck, addTrace, addError>>
       ELSE /\ addTrace' = Append(addTrace, "ssh")
            /\ \/ /\ addToCheck' = Tail(addToCheck)
                  /\ UNCHANGED <<addPc, addError>>
               \/ /\ addPc' = "raised"
                  /\ addError' = "ShellException"
                  /\ UNCHANGED addToCheck
  /\ UNCHANGED <<addRequest, notAdd>>

\* acc.start_roles_on_nodes(json.dumps(options.ips))
add_instances_send ==
  /\ addPc = "send"
  /\ addTrace' = Append(addTrace, "start_roles_on_nodes")
  /\ \/ addPc' = "done" /\ UNCHANGED addError
     \/ addPc' = "raised" /\ addError' = "AppControllerException"
  /\ UNCHANGED <<addRequest, addToCheck, notAdd>>

InitAddInstances ==
  /\ PollerIdle /\ CloudIdle /\ RunIdle /\ TermIdle /\ CleanIdle
  /\ BringIdle /\ TearIdle /\ UpgIdle /\ PreIdle /\ SecIdle /\ RemIdle
  /\ addPc = "start"
  /\ addKeys \in SUBSET Roles
  /\ addIps \in [Roles -> IpLists]
  /\ \A r \in Roles : r \notin addKeys => addIps[r] = <<>>
  /\ addXen \in BOOLEAN
  /\ addToCheck = <<>>
  /\ addTrace = <<>>
  /\ addError = "none"

NextAddInstances ==
  \/ add_instances_check_master
  \/ add_instances_layout
  \/ add_instances_infrastructure
  \/ add_instances_ssh
  \/ add_instances_send

SpecAddInstances == InitAddInstances /\ [][NextAddInstances]_vars

\* C18: a request that names the master role is refused with a
\* BadConfigurationException, whatever else it holds, and nothing was
\* called before: no layout, no SSH check, no request to the controller.
C18_MasterRejected ==
  "master" \in addKeys
    => /\ addPc \in {"start", "raised"}
       /\ addPc = "raised" => addError = "BadConfigurationException"
       /\ addTrace = <<>>
       /\ addToCheck = <<>>

\* A request for a master and a database node on a virtualized cluster was
\* refused.
C18_Witness ==
  /\ addKeys = {"master", "database"}
  /\ addXen
  /\ addPc = "raised"
  /\ addError = "BadConfigurationException"

(***************************************************************************)
(* AzureAgent.get_params_from_args, then configure_instance_security with  *)
(* create_resource_group and create_storage_account.                       *)
(***************************************************************************)

DEFAULT_RESOURCE_GROUP == "appscalegroup"
DEFAULT_STORAGE_ACCT == "appscalestorage"

\* An argument that was not given: None or the empty string.
NotGiven == ""

GroupNames == {DEFAULT_RESOURCE_GROUP, "mygroup"}
AccountNames == {DEFAULT_STORAGE_ACCT, "myaccount"}
KeyFiles == {"private", "public"}

secInputs == <<secArgs, azureAtEntry>>

SecRaise(exception) == secPc' = "raised" /\ secError' = exception

\* if args[self.PARAM_RESOURCE_GROUP] in rg_names
GroupExists(args, rg_names) == args.resource_group \in rg_names

\* get_params_from_args: the groups of the subscription are listed while
\* the credentials are checked; the names not given get their defaults.
get_params_from_args ==
  /\ secPc = "params"
  /\ secCalls' = Append(secCalls, <<"resource_groups.list">>)
  /\ \/ /\ SecRaise("AgentConfigurationException")
        /\ UNCHANGED secParams
     \/ /\ secParams' =
             [resource_group |->
                IF secArgs.resource_group = NotGiven
                  THEN DEFAULT_RESOURCE_GROUP ELSE secArgs.resource_group,
              storage_account |->
                IF secArgs.storage_account = NotGiven
                  THEN DEFAULT_STORAGE_ACCT ELSE secArgs.storage_account,
              does_exist |-> GroupExists(secArgs, azureGroups)]
        /\ secPc' = "configure"
        /\ UNCHANGED secError
  /\ UNCHANGED <<secInputs, azureGroups, azureAccounts, secKeyFiles,
                 secKeysGenerated, notSec>>

\* credentials = self.open_connection(parameters)
configure_instance_security_open ==
  /\ secPc = "configure"
  /\ secCalls' = Append(secCalls, <<"open_connection">>)
  /\ secPc' = "key_check"
  /\ UNCHANGED <<secInputs, secParams, secError, azureGroups,
                 azureAccounts, secKeyFiles, secKeysGenerated, notSec>>

\* The test of the key files looking at the private key only.
configure_instance_security_check_key_private ==
  /\ secPc = "key_check"
  /\ secCalls' = Append(secCalls, <<"os.path.exists">>)
  /\ IF "private" \in secKeyFiles
       THEN SecRaise("AgentRuntimeException")
       ELSE secPc' = "generate" /\ UNCHANGED secError
  /\ UNCHANGED <<secInputs, secParams, azureGroups, azureAccounts,
                 secKeyFiles, secKeysGenerated, notSec>>

\* if os.path.exists(private_key) or os.path.exists(public_key): raise
configure_instance_security_check_key ==
  /\ secPc = "key_check"
  /\ secCalls' = Append(secCalls, <<"os.path.exists">>)
  /\ IF secKeyFiles # {}
       THEN SecRaise("AgentRuntimeException")
       ELSE secPc' = "generate" /\ UNCHANGED secError
  /\ UNCHANGED <<secInputs, secParams, azureGroups, azureAccounts,
                 secKeyFiles, secKeysGenerated, notSec>>

\* LocalState.generate_rsa_key(keyname, verbose)
generate_rsa_key ==
  /\ secPc = "generate"
  /\ secCalls' = Append(secCalls, <<"generate_rsa_key">>)
  /\ secKeysGenerated' = secKeysGenerated + 1
  /\ secKeyFiles' = KeyFiles
  /\ secPc' = "register_storage"
  /\ UNCHANGED <<secInputs, secParams, azureGroups, azureAccounts, secError,
                 notSec>>

\* create_resource_group:
\* resource_client.providers.register(self.MICROSOFT_STORAGE_RESOURCE)
create_resource_group_register ==
  /\ secPc = "register_storage"
  /\ secCalls' = Append(secCalls, <<"providers.register", "Microsoft.Storage">>)
  /\ secPc' = "group"
  /\ UNCHANGED <<secInputs, secParams, azureGroups, azureAccounts,
                 secKeyFiles, secKeysGenerated, secError, notSec>>

\* The branch of a new group, with the group then marked as existing in the
\* parameters it was given.
create_resource_group_new_marking ==
  /\ secPc = "group"
  /\ ~secParams.does_exist
  /\ secCalls' = Append(secCalls, <<"resource_groups.create_or_update",
                                    secParams.resource_group>>)
  /\ \/ /\ azureGroups' = azureGroups \cup {secParams.resource_group}
        /\ secParams' = [secParams EXCEPT !.does_exist = TRUE]
        /\ secPc' = "account"
        /\ UNCHANGED secError
     \/ /\ SecRaise("AgentConfigurationException")
        /\ UNCHANGED <<azureGroups, secParams>>
  /\ UNCHANGED <<secInputs, azureAccounts, secKeyFiles,
                 secKeysGenerated, notSec>>

\* create_resource_group, the branch of a group taken as new:
\* resource_groups.create_or_update, then create_storage_account.
create_resource_group_new ==
  /\ secPc = "group"
  /\ ~secParams.does_exist
  /\ secCalls' = Append(secCalls, <<"resource_groups.create_or_update",
                                    secParams.resource_group>>)
  /\ \/ /\ azureGroups' = azureGroups \cup {secParams.resource_group}
        /\ secPc' = "account"
        /\ UNCHANGED secError
     \/ /\ SecRaise("AgentConfigurationException")
        /\ UNCHANGED azureGroups
  /\ UNCHANGED <<secInputs, secParams, azureAccounts, secKeyFiles,
                 secKeysGenerated, notSec>>

\* create_resource_group, the branch of a group taken as existing: the
\* accounts under it are listed and the account is created if not among them.
create_resource_group_existing ==
  /\ secPc = "group"
  /\ secParams.does_exist
  /\ secCalls' = Append(secCalls, <<"storage_accounts.list_by_resource_group",
                                    secParams.resource_group>>)
  /\ \/ /\ secPc' =
             IF <<secParams.resource_group, secParams.storage_account>>
                  \in azureAccounts
               THEN "register_compute" ELSE "account"
        /\ UNCHANGED secError
     \/ SecRaise("AgentConfigurationException")
  /\ UNCHANGED <<secInputs, secParams, azureGroups, azureAccounts,
                 secKeyFiles, secKeysGenerated, notSec>>

\* create_storage_account: storage_accounts.create and result.wait().
create_storage_account ==
  /\ secPc = "account"
  /\ secCalls' = Append(secCalls, <<"storage_accounts.create",
                                    secParams.resource_group,
                                    secParams.storage_account>>)
  /\ \/ /\ azureAccounts' = azureAccounts \cup
             {<<secParams.resource_group, secParams.storage_account>>}
        /\ secPc' = "register_compute"
        /\ UNCHANGED secError
     \/ /\ SecRaise("AgentConfigurationException")
        /\ UNCHANGED azureAccounts
  /\ UNCHANGED <<secInputs, secParams, azureGroups, secKeyFiles,
                 secKeysGenerated, notSec>>

\* resource_client.providers.register(self.MICROSOFT_COMPUTE_RESOURCE)
configure_instance_security_register_compute ==
  /\ secPc = "register_compute"
  /\ secCalls' = Append(secCalls, <<"providers.register", "Microsoft.Compute">>)
  /\ secPc' = "register_network"
  /\ UNCHANGED <<secInputs, secParams, azureGroups, azureAccounts,
                 secKeyFiles, secKeysGenerated, secError, notSec>>

\* resource_client.providers.register(self.MICROSOFT_NETWORK_RESOURCE)
configure_instance_security_register_network ==
  /\ secPc = "register_network"
  /\ secCalls' = Append(secCalls, <<"providers.register", "Microsoft.Network">>)
  /\ secPc' = "done"
  /\ UNCHANGED <<secInputs, secParams, azureGroups, azureAccounts,
                 secKeyFiles, secKeysGenerated, secError, notSec>>

InitSecurity ==
  /\ PollerIdle /\ CloudIdle /\ RunIdle /\ TermIdle /\ CleanIdle
  /\ BringIdle /\ TearIdle /\ UpgIdle /\ PreIdle /\ AddIdle /\ RemIdle
  /\ secPc = "params"
  /\ secArgs \in [resource_group : GroupNames \cup {NotGiven},
                  storage_account : AccountNames \cup {NotGiven}]
  /\ secParams = NoParams
  /\ azureGroups \in SUBSET GroupNames
  /\ azureAccounts \in SUBSET (azureGroups \X AccountNames)
  /\ azureAtEntry = [groups |-> azureGroups, accounts |-> azureAccounts]
  /\ secKeyFiles \in SUBSET KeyFiles
  /\ secKeysGenerated = 0
  /\ secCalls = <<>>
  /\ secError = "none"

NextSecurity ==
  \/ get_params_from_args
  \/ configure_instance_security_open
  \/ configure_instance_security_check_key
  \/ generate_rsa_key
  \/ create_resource_group_register
  \/ create_resource_group_new
  \/ create_resource_group_existing
  \/ create_storage_account
  \/ configure_instance_security_register_compute
  \/ configure_instance_security_register_network

SpecSecurity == InitSecurity /\ [][NextSecurity]_vars

SecCalled(name) == \E i \in 1..Len(secCalls) : secCalls[i][1] = name

\* The calls that create or register something in the subscription.
RemoteChanges ==
  {"providers.register", "resource_groups.create_or_update",
   "storage_accounts.create"}

KeysFoundAtCheck ==
  SecCalled("os.path.exists") /\ secKeysGenerated = 0 /\ secKeyFiles # {}

\* C19: when the private or the public key file exists at the test of
\* configure_instance_security, the call raises AgentRuntimeException, no
\* key is generated and no call that creates or registers anything in the
\* subscription is made; when neither exists, the key is generated, once,
\* before any such call, and never more than once.
C19_KeyFilesGuard ==
  /\ KeysFoundAtCheck =>
       /\ secPc = "raised"
       /\ secError = "AgentRuntimeException"
       /\ \A name \in RemoteChanges : ~SecCalled(name)
  /\ (SecCalled("os.path.exists") /\ ~KeysFoundAtCheck /\ secPc # "generate")
       => secKeysGenerated = 1
  /\ (\E name \in RemoteChanges : SecCalled(name)) => secKeysGenerated = 1
  /\ secKeysGenerated <= 1

\* Only the public key file exists and the call has been refused.
C19_Witness ==
  /\ secKeyFiles = {"public"}
  /\ secPc = "raised"
  /\ secError = "AgentRuntimeException"

EffectiveGroup ==
  IF secArgs.resource_group = NotGiven
    THEN DEFAULT_RESOURCE_GROUP ELSE secArgs.resource_group

EffectiveAccount ==
  IF secArgs.storage_account = NotGiven
    THEN DEFAULT_STORAGE_ACCT ELSE secArgs.storage_account

\* C20: resource_groups.create_or_update is called only when no group with
\* the effective name (the default when none was given) was among the groups
\* of the subscription, storage_accounts.create only when no account with
\* the effective name was under that group, and neither is called when both
\* were there.
C20_CheckThenCreate ==
  /\ SecCalled("resource_groups.create_or_update")
       => EffectiveGroup \notin azureAtEntry.groups
  /\ SecCalled("storage_accounts.create")
       => <<EffectiveGroup, EffectiveAccount>> \notin azureAtEntry.accounts

(***************************************************************************)
(* What AzureAgent.run_instances returns.                                  *)
(***************************************************************************)

\* The machines the finished call created: one per turn of its loop.
CreatedMachines == 1..runCount

\* C21: the three sequences run_instances returns have one length, the i-th
\* instance id, public address and private address belong to one machine,
\* and the machines described are the machines this call created.
C21_ResultCorrelated ==
  runPc = "returned" =>
    /\ Len(runResult.instance_ids) = Len(runResult.public_ips)
    /\ Len(runResult.instance_ids) = Len(runResult.private_ips)
    /\ \A i \in DOMAIN runResult.instance_ids :
         /\ runResult.public_ips[i] = <<"public", runResult.instance_ids[i]>>
         /\ runResult.private_ips[i] = <<"private", runResult.instance_ids[i]>>
    /\ {runResult.instance_ids[i] : i \in DOMAIN runResult.instance_ids}
         = CreatedMachines

(***************************************************************************)
(* Bring-up on a cloud: the machines asked for and their attachment.       *)
(***************************************************************************)

\* C22: on a cloud, bring-up calls start_all_nodes once, for as many
\* machines as the layout has nodes, and gives node i the i-th address pair
\* and instance id for every index returned; without a cloud it does not
\* call it; the attachment never reads past the last node of the layout.
C22_PositionalAttach ==
  /\ Cardinality(BringAt("start_all_nodes")) <= 1
  /\ ~bringCloud => ~BringCalled({"start_all_nodes"})
  /\ (bringCloud /\ BringCalled({"enable_root_ssh"})) =>
       /\ Cardinality(BringAt("start_all_nodes")) = 1
       /\ bringAttached = bringReturned
  /\ bringAttached <= bringNodes
  /\ bringError # "IndexError"

(***************************************************************************)
(* The thread that launches the upgrade script, and the shared collectors. *)
(***************************************************************************)

ScriptWarning == <<"warn", "Error executing upgrade script">>

ScriptWarned == \E i \in 1..Len(upgLog) : upgLog[i] = ScriptWarning

\* The SSH command of async_layout_upgrade has raised.
LaunchFailed == watcherPc = "ended" /\ (error_bucket # <<>> \/ ScriptWarned)

\* C23: once the SSH command that launched the upgrade script has failed,
\* the failure has been reported: the report is the thread's own and does
\* not wait for the status loop to come round to its next read.
C23_FailureSurfacedAtOnce == LaunchFailed => ScriptWarned

IsPrefix(s, t) == Len(s) <= Len(t) /\ SubSeq(t, 1, Len(s)) = s

\* The bootstrap threads have all ended.
BootstrapEnded == \A n \in UpgNodeSet : upgWorker[n] = "ended"

\* The collectors only grow by their writers, and error_ips is read, by the
\* test of upgrade_appscale, after every bootstrap thread was joined.
CollectorsWrittenByWorkers ==
  /\ [](UpgDecided => (BootstrapEnded /\ upgJoined = upgNodes))
  /\ [][IsPrefix(error_ips, error_ips')]_vars
  /\ [][error_ips' # error_ips =>
          \E n \in UpgNodeSet :
            upgWorker[n] = "ssh_done" /\ upgWorker'[n] = "ended"]_vars
  /\ [][Len(error_bucket') > Len(error_bucket) =>
          (watcherPc = "running" /\ watcherPc' = "ended")]_vars

\* error_bucket.get(block=False) is the step from "bucket" to "read".
BucketRead == upgPc = "bucket" /\ upgPc' = "read"

\* C24: each collector shared with worker threads, error_ips and
\* error_bucket, is only appended to by the workers, and the main thread
\* reads it only when every thread writing to it has ended.
C24_ReadAfterJoin ==
  /\ CollectorsWrittenByWorkers
  /\ [][BucketRead => watcherPc # "running"]_vars

\* C24, amended: error_ips is appended to by the bootstrap threads only and
\* read after all of them were joined; error_bucket is put to by the
\* launcher thread only, at most once, and taken from by the status loop
\* alone, which polls it whether or not the launcher thread has ended.
C24_CollectorsAmended ==
  /\ CollectorsWrittenByWorkers
  /\ [](Len(error_bucket) <= 1)
  /\ [][Len(error_bucket') < Len(error_bucket) => BucketRead]_vars

\* Both bootstrap threads failed, and the list was read after the joins.
C24_Witness ==
  /\ upgPc = "done"
  /\ ~upgScriptRan
  /\ Len(error_ips) = 2
  /\ upgJoined = upgNodes

(***************************************************************************)
(* AppScaleTools.remove_app.                                               *)
(***************************************************************************)

\* AppScaleTools.MAX_RETRIES
MAX_RETRIES == 20

RemRaise(message) == remPc' = "raised" /\ remError' = message

\* if not options.confirm: raw_input, and AppScaleException unless the
\* answer is y or yes.
remove_app_confirm ==
  /\ remPc = "confirm"
  /\ IF remConfirm
       THEN remPc' = "is_app_running" /\ UNCHANGED <<remAnswers, remError>>
       ELSE \E response \in Responses :
              /\ remAnswers' =
                   Append(remAnswers, Answer("remove", response, remTrace))
              /\ IF Confirmed(response)
                   THEN remPc' = "is_app_running" /\ UNCHANGED remError
                   ELSE RemRaise("Cancelled application removal.")
  /\ UNCHANGED <<remConfirm, remQueries, remSleeps, remPort, remWaits,
                 remTrace, notRem>>

\* if not acc.is_app_running(options.appname): raise
remove_app_is_app_running ==
  /\ remPc = "is_app_running"
  /\ remTrace' = Append(remTrace, "is_app_running")
  /\ \/ remPc' = "lookup" /\ UNCHANGED remError
     \/ RemRaise("The given application is not currently running.")
  /\ UNCHANGED <<remConfirm, remAnswers, remQueries, remSleeps, remPort,
                 remWaits, notRem>>

\* One turn of the lookup loop whose handler of KeyError and ValueError does
\* not sleep.
remove_app_get_all_stats_unslept ==
  /\ remPc = "lookup"
  /\ remQueries < MAX_RETRIES + 1
  /\ remQueries' = remQueries + 1
  /\ \E result \in {"port", "no port", "KeyError", "ValueError"} :
       IF result = "port"
         THEN remPort' = TRUE /\ remPc' = "stop_app" /\ UNCHANGED remSleeps
         ELSE /\ remSleeps' = IF result = "no port" THEN remSleeps + 1
                              ELSE remSleeps
              /\ UNCHANGED <<remPc, remPort>>
  /\ UNCHANGED <<remConfirm, remAnswers, remWaits, remTrace, remError,
                 notRem>>

\* One turn of the loop over range(MAX_RETRIES + 1): acc.get_all_stats(),
\* then break on a port, or sleep on an empty port, a KeyError or a
\* ValueError.
remove_app_get_all_stats ==
  /\ remPc = "lookup"
  /\ remQueries < MAX_RETRIES + 1
  /\ remQueries' = remQueries + 1
  /\ \E result \in {"port", "no port", "KeyError", "ValueError"} :
       IF result = "port"
         THEN remPort' = TRUE /\ remPc' = "stop_app" /\ UNCHANGED remSleeps
         ELSE /\ remSleeps' = remSleeps + 1
              /\ UNCHANGED <<remPc, remPort>>
  /\ UNCHANGED <<remConfirm, remAnswers, remWaits, remTrace, remError,
                 notRem>>

\* The loop ran out: if not http_port: raise
remove_app_no_port ==
  /\ remPc = "lookup"
  /\ remQueries = MAX_RETRIES + 1
  /\ RemRaise("Unable to get the serving port for the application.")
  /\ UNCHANGED <<remConfirm, remAnswers, remQueries, remSleeps, remPort,
                 remWaits, remTrace, notRem>>

\* acc.stop_app(options.appname)
remove_app_stop_app ==
  /\ remPc = "stop_app"
  /\ remTrace' = Append(remTrace, "stop_app")
  /\ remPc' = "wait"
  /\ UNCHANGED <<remConfirm, remAnswers, remQueries, remSleeps, remPort,
                 remWaits, remError, notRem>>

\* One turn of the second loop: the port is still open and the loop sleeps,
\* or it is closed and remove_app returns; after MAX_RETRIES + 1 turns the
\* warning is logged and remove_app returns.
remove_app_is_port_open ==
  /\ remPc = "wait"
  /\ IF remWaits = MAX_RETRIES + 1
       THEN remPc' = "done" /\ UNCHANGED remWaits
       ELSE \/ remWaits' = remWaits + 1 /\ UNCHANGED remPc
            \/ remPc' = "done" /\ UNCHANGED remWaits
  /\ UNCHANGED <<remConfirm, remAnswers, remQueries, remSleeps, remPort,
                 remTrace, remError, notRem>>

InitRemoveApp ==
  /\ PollerIdle /\ CloudIdle /\ RunIdle /\ TermIdle /\ CleanIdle
  /\ BringIdle /\ TearIdle /\ UpgIdle /\ PreIdle /\ AddIdle /\ SecIdle
  /\ remPc = "confirm"
  /\ remConfirm \in BOOLEAN
  /\ remAnswers = <<>>
  /\ remQueries = 0
  /\ remSleeps = 0
  /\ remPort = FALSE
  /\ remWaits = 0
  /\ remTrace = <<>>
  /\ remError = "none"

NextRemoveApp ==
  \/ remove_app_confirm
  \/ remove_app_is_app_running
  \/ remove_app_get_all_stats
  \/ remove_app_no_port
  \/ remove_app_stop_app
  \/ remove_app_is_port_open

SpecRemoveApp == InitRemoveApp /\ [][NextRemoveApp]_vars

(***************************************************************************)
(* The workflows that ask the user before going on: upgrade, remove_app.   *)
(***************************************************************************)
InitConfirmations == InitUpgradePreflight \/ InitRemoveApp

NextConfirmations == NextUpgradePreflight \/ NextRemoveApp

SpecConfirmations == InitConfirmations /\ [][NextConfirmations]_vars

\* y or yes, in any letter case.
IsYes(response) ==
  \/ Len(response) = 1 /\ response[1] \in {121, 89}
  \/ /\ Len(response) = 3
     /\ response[1] \in {121, 89}
     /\ response[2] \in {101, 69}
     /\ response[3] \in {115, 83}

Refused(answers) == {i \in 1..Len(answers) : ~IsYes(answers[i].response)}

\* C25: an answer that is empty, or anything but y or yes in some letter
\* case, is the last thing the workflow asked: it ended with the
\* cancellation error, and no shut-down, no remote command and no further
\* question followed the answer.  An answer of y or yes is not what
\* cancels the workflow.
C25_RefusalCancels ==
  /\ \A i \in Refused(preAnswers) :
       /\ i = Len(preAnswers)
       /\ prePc = "raised"
       /\ preError = [type |-> "AppScaleException",
                      message |-> <<"Cancelled AppScale upgrade.">>]
       /\ Len(preTrace) = preAnswers[i].at
  /\ \A i \in Refused(remAnswers) :
       /\ remPc = "raised"
       /\ remError = "Cancelled application removal."
       /\ Len(remTrace) = remAnswers[i].at
       /\ remQueries = 0
  /\ (preAnswers # <<>> /\ Len(preAnswers) \notin Refused(preAnswers))
       => preError.message # <<"Cancelled AppScale upgrade.">>
  /\ (remAnswers # <<>> /\ Len(remAnswers) \notin Refused(remAnswers))
       => remError # "Cancelled application removal."

\* The question about shutting down was answered with nothing at all, after
\* the version check had failed and the user had typed YeS to go on.
C25_Witness ==
  /\ Len(preAnswers) = 2
  /\ preAnswers[1].response = <<89, 101, 83>>
  /\ preAnswers[2].prompt = "shut down"
  /\ preAnswers[2].response = <<>>
  /\ prePc = "raised"

(***************************************************************************)
(* upgrade when the latest version of the tools cannot be fetched.         *)
(***************************************************************************)

\* latest_tools_version() was called and raised.
FetchFailed ==
  PreCalled("latest_tools_version") /\ ~preFetched /\ prePc # "tools"

UpgradeCancelled ==
  /\ prePc = "raised"
  /\ preError = [type |-> "AppScaleException",
                 message |-> <<"Cancelled AppScale upgrade.">>]

ContinueAnswers ==
  {i \in 1..Len(preAnswers) : preAnswers[i].prompt = "continue"}

\* C26: when latest_tools_version() fails, upgrade under options.test goes
\* on without asking; otherwise it asks once and goes on exactly when the
\* answer is y or yes, ending with the cancellation otherwise; having gone
\* on, it never raises that newer tools are available.  When the call
\* succeeds the question is not asked.
C26_FailedCheckAsks ==
  /\ FetchFailed =>
       /\ ~ToolsBehindRaised
       /\ preTest => (preAnswers = <<>> /\ ~UpgradeCancelled)
       /\ ~preTest =>
            /\ ContinueAnswers = {1}
            /\ IsYes(preAnswers[1].response)
                 <=> ~(UpgradeCancelled /\ Len(preAnswers) = 1)
  /\ ~FetchFailed => ContinueAnswers = {}

\* The published tools are newer, the check failed, the user typed Y and
\* upgrade went on to the head node.
C26_Witness ==
  /\ FetchFailed
  /\ ~preTest
  /\ preAnswers[1].response = <<89>>
  /\ VersionNewer(prePublished, preLocal)
  /\ PreCalled("get_host_appscale_version")

(***************************************************************************)
(* Tear-down: when the cloud machines are terminated.                      *)
(***************************************************************************)

\* The locations file records a supported cloud and options.terminate is
\* set.
CloudTerminationAsked ==
  tearConfig /\ tearInfra \in VALID_AGENTS /\ tearTerminate

\* C27: terminate_cloud_infrastructure is called only for a supported cloud
\* with termination asked for, and a tear-down that has ended has called it
\* whenever that is the case.
C27_CloudTerminationIff ==
  /\ tearCloud # "none" => CloudTerminationAsked
  /\ (tearPc \in {"done", "raised"} /\ CloudTerminationAsked)
       => tearCloud # "none"

(***************************************************************************)
(* One call of the agent: run_instances, terminate_instances or            *)
(* cleanup_state.                                                          *)
(***************************************************************************)
InitAgentCall == InitRun \/ InitTerminate \/ InitCleanup

NextAgentCall ==
  \/ termPc = "idle" /\ cleanPc = "idle" /\ NextRun
  \/ runPc = "idle" /\ cleanPc = "idle" /\ NextTerminate
  \/ runPc = "idle" /\ termPc = "idle" /\ NextCleanup

SpecAgentCall == InitAgentCall /\ [][NextAgentCall]_vars

\* The statement that follows each create poll of run_instances.
AfterRunPoll(pc) ==
  CASE pc = "vnet_poll" -> "loop"
    [] pc = "ip_poll" -> "nic_create"
    [] pc = "nic_poll" -> "vm_create"
    [] OTHER -> "none"

\* The loop each delete poll of cleanup_state belongs to.
AfterCleanPoll(pc) ==
  CASE pc = "nic_poll" -> "nic_loop"
    [] pc = "ip_poll" -> "ip_loop"
    [] pc = "vnet_poll" -> "vnet_loop"
    [] OTHER -> "none"

\* C29: a poll that runs out of its budget logs the timeout and returns:
\* run_instances goes on to the statement after the poll of the network, of
\* an address or of an interface; the delete thread of terminate_instances
\* ends normally and its caller is not disturbed; cleanup_state goes back to
\* the loop the delete belongs to.  None of them ends with an exception
\* because of a timeout.
C29_TimeoutOnlyLogged ==
  /\ [](runPc # "raised")
  /\ [][runTimeouts' # runTimeouts =>
          (runPc' = AfterRunPoll(runPc) /\ runPc' # "none")]_vars
  /\ [][termTimeoutLog' # termTimeoutLog =>
          /\ termPc' = termPc
          /\ \E n \in MachineNames :
               /\ termTimeoutLog' = termTimeoutLog \cup {n}
               /\ workerPc[n] = "polling"
               /\ workerPc'[n] = "finished"]_vars
  /\ [][(cleanTimeouts' \ cleanTimeouts) # {} =>
          (cleanPc' = AfterCleanPoll(cleanPc) /\ cleanPc' # "none")]_vars

\* run_instances has returned its machines although the polls of the
\* network, of an address and of an interface all timed out.
C29_Witness ==
  /\ runPc = "returned"
  /\ runCount >= 1
  /\ {t[1] : t \in runTimeouts} = {"vnet", "ip", "nic"}
\* The positions of runTrace at which the given call was recorded.
RunAt(op, kind, name) ==
  {p \in DOMAIN runTrace : runTrace[p] = Event(op, kind, name)}

\* The machines of this call whose create of the given kind has been issued.
RunStarted(kind) == {i \in 1..runCount : RunAt("create", kind, i) # {}}

\* The calls of a whole run_instances(count) in the order of the claim: the
\* network is created and polled, then machine by machine the address is
\* created and polled, the interface is created and polled, and the machine
\* is created.
CreateSequence(count) ==
  [k \in 1..(2 + 5 * count) |->
     IF k = 1 THEN Event("create", "vnet", Net)
     ELSE IF k = 2 THEN Event("poll", "vnet", Net)
     ELSE LET machine == ((k - 3) \div 5) + 1
              step == (k - 3) % 5
          IN  Event(IF step \in {0, 2, 4} THEN "create" ELSE "poll",
                    IF step \in {0, 1} THEN "ip"
                    ELSE IF step \in {2, 3} THEN "nic" ELSE "vm",
                    machine)]

\* C30: run_instances(count) issues exactly one virtual-network create for
\* the call and, for each of the count machines, exactly one public-address
\* create, one network-interface create and one virtual-machine create, in
\* the order network, address, interface, machine, an interface create
\* coming after the poll of its machine's address create and a machine
\* create after the poll of its interface create: at every moment the calls
\* made are the beginning of that one sequence, and a call that has left
\* its loop has made all of it.
C30_CreatesInOrder ==
  /\ Len(runTrace) <= 2 + 5 * runCount
  /\ runTrace = SubSeq(CreateSequence(runCount), 1, Len(runTrace))
  /\ runPc \in {"describe", "returned"} =>
       Len(runTrace) = 2 + 5 * runCount

\* A call for two machines has returned.
C30_Witness ==
  /\ runPc = "returned"
  /\ runCount = 2
  /\ RunStarted("vm") = {1, 2}

\* The reads that hold both fields and say the upgrade is complete.
CompleteReads ==
  {i \in 1..Len(upgReads) :
     WellFormed(upgReads[i]) /\ upgReads[i].status = "complete"}

SuccessLines == SelectSeq(upgLog, LAMBDA l : l[1] = "success")

\* time.sleep(cls.SLEEP_TIME) is run once by each in-progress read.
UpgSleeps ==
  Cardinality({i \in 1..Len(upgReads) :
     WellFormed(upgReads[i]) /\ upgReads[i].status = "inProgress"})

\* C31: a status read that says complete is the last read; its message is
\* logged as the one success line, which is the last line of the log; the
\* loop has ended without an error; and from then on the main thread reads
\* no status, sleeps no more and logs nothing.
C31_CompleteEndsLoop ==
  /\ [](\A i \in CompleteReads :
          /\ i = Len(upgReads)
          /\ upgPc = "done"
          /\ upgError = Raised("none", "")
          /\ SuccessLines = <<<<"success", upgReads[i].message>>>>
          /\ upgLog[Len(upgLog)] = <<"success", upgReads[i].message>>)
  /\ [][upgPc = "done" =>
          /\ upgPc' = "done"
          /\ UpgSleeps' = UpgSleeps
          /\ UNCHANGED <<upgReads, upgLog, last_message, upgError>>]_vars

\* Complete was read after two in-progress reads, and the launcher thread
\* ended afterwards.
C31_Witness ==
  /\ upgPc = "done"
  /\ Len(upgReads) = 3
  /\ UpgSleeps = 2
  /\ watcherPc = "ended"
  /\ error_bucket # <<>>

\* The messages logged for in-progress reads, in order.
ProgressLines == SelectSeq(upgLog, LAMBDA l : l[1] = "log")

\* C32: over one run of the status loop no in-progress message value is
\* logged twice, also when it comes back after a different message.
C32_LoggedOncePerValue ==
  \A i, j \in 1..Len(ProgressLines) :
    ProgressLines[i] = ProgressLines[j] => i = j

\* The reads that lack the status field or the message field.
MalformedReads == {i \in 1..Len(upgReads) : ~WellFormed(upgReads[i])}

InvalidStatusLog == Raised("AppScaleException", "Invalid status log format")

\* C38: a status read without its status field or without its message
\* field, whatever the other field holds, is the last read; the loop has
\* raised 'Invalid status log format'; no success line was logged and no
\* line was logged for that read; and from then on the main thread reads
\* and logs nothing.
C38_InvalidFormatRaises ==
  /\ [](\A i \in MalformedReads :
          /\ i = Len(upgReads)
          /\ upgPc = "raised"
          /\ upgError = InvalidStatusLog
          /\ SuccessLines = <<>>
          /\ Len(ProgressLines) <= UpgSleeps)
  /\ [][upgError = InvalidStatusLog =>
          UNCHANGED <<upgPc, upgReads, upgLog, last_message, upgError>>]_vars

\* A read says complete but has no message, after an in-progress read.
C38_Witness ==
  /\ Len(upgReads) = 2
  /\ upgReads[1] = InProgressRead("step1")
  /\ upgReads[2] = [status |-> "complete", message |-> Absent]
  /\ upgError = InvalidStatusLog

\* The resources of the group for which this invocation issued no delete.
CleanSkipped ==
  ({<<"nic", n>> : n \in cloudNics} \cup {<<"ip", n>> : n \in cloudIps}
     \cup {<<"vnet", n>> : n \in cloudVnets}) \ cleanIssued

\* C33: a delete call the provider rejects is not raised out of
\* cleanup_state, and an invocation that has ended has issued a delete for
\* every interface, address and network of the group.
C33_CleanupBestEffort ==
  /\ cleanPc # "raised"
  /\ cleanPc \in {"returned", "raised"} => CleanSkipped = {}

(***************************************************************************)
(* A run_instances that is interrupted, followed by the tear-down calls of *)
(* the agent: terminate_instances, then cleanup_state.                     *)
(***************************************************************************)
\* run_instances is left before its return, by an exception of one of its
\* calls or by the operator's interrupt; what it created stays in the group
\* and the count of its wait loop goes with its frame. The runs followed
\* further are those in which no create poll had timed out.
run_instances_interrupted ==
  /\ runPc \notin {"idle", "returned", "interrupted"}
  /\ runTimeouts = {}
  /\ runPc' = "interrupted"
  /\ runIpWaitRounds' = 0
  /\ UNCHANGED <<runCount, runI, runTrace, runTimeouts, runResult>>
  /\ UNCHANGED <<varsCloud, notRun>>

InitInterrupted == InitRun

NextInterrupted ==
  \/ runPc # "interrupted" /\ NextRun
  \/ run_instances_interrupted
  \/ runPc = "interrupted" /\ cleanPc = "idle" /\ NextTerminate
  \/ runPc = "interrupted" /\ termPc = "returned" /\ cleanPc # "returned"
       /\ NextCleanup

SpecInterrupted == InitInterrupted /\ [][NextInterrupted]_vars

\* The resources the run's create calls were issued for.
RunCreated ==
  {<<runTrace[p].kind, runTrace[p].name>> :
     p \in {q \in DOMAIN runTrace : runTrace[q].op = "create"}}

\* The resources a delete call was issued for by terminate_instances and by
\* the cleanup_state that followed it.
TornDown ==
  {<<"vm", n>> : n \in {m \in MachineNames : vmDeleteCalls[m] >= 1}}
    \cup cleanIssued

\* terminate_instances and then one cleanup_state have ended after an
\* interrupted run.
TornDownAfterInterrupt ==
  /\ runPc = "interrupted"
  /\ termPc = "returned"
  /\ cleanCalls = 1
  /\ cleanPc \in {"returned", "raised"}

\* C34: terminate_instances and cleanup_state work from their own listing of
\* the group, so after a run_instances interrupted at any point a
\* terminate_instances followed by a cleanup_state has issued a delete for
\* every machine, interface, address and network the run had created.
C34_InterruptedRunTornDown ==
  TornDownAfterInterrupt => RunCreated \subseteq TornDown

(***************************************************************************)
(* One deployment's calls of the agent with one parameter mapping: the     *)
(* mapping is built, security is configured, the zone is looked up,        *)
(* machines are run and described, terminated, and the group is cleaned.   *)
(***************************************************************************)
\* does_zone_exist(parameters): providers.list() is read, nothing is written.
does_zone_exist ==
  /\ secPc = "done"
  /\ runPc = "idle"
  /\ \A i \in DOMAIN secCalls : secCalls[i] # <<"providers.list">>
  /\ secCalls' = Append(secCalls, <<"providers.list">>)
  /\ UNCHANGED <<secPc, secInputs, secParams, azureGroups, azureAccounts,
                 secKeyFiles, secKeysGenerated, secError, notSec>>

\* A subscription with one resource group or none and no storage account,
\* the default account asked for, and a key pair on disk or not.
InitLifecycle ==
  /\ PollerIdle /\ CloudIdle /\ RunIdle /\ TermIdle /\ CleanIdle
  /\ BringIdle /\ TearIdle /\ UpgIdle /\ PreIdle /\ AddIdle /\ RemIdle
  /\ secPc = "params"
  /\ secArgs \in [resource_group : GroupNames \cup {NotGiven},
                  storage_account : {NotGiven}]
  /\ secParams = NoParams
  /\ azureGroups \in {{}, {"mygroup"}}
  /\ azureAccounts = {}
  /\ azureAtEntry = [groups |-> azureGroups, accounts |-> azureAccounts]
  /\ secKeyFiles \in {{}, KeyFiles}
  /\ secKeysGenerated = 0
  /\ secCalls = <<>>
  /\ secError = "none"

\* The deployment followed here runs at most one machine.
NextLifecycle ==
  \/ NextSecurity
  \/ does_zone_exist
  \/ secPc = "done" /\ termPc = "idle" /\ NextRun /\ runCount' <= 1
  \/ runPc = "returned" /\ runTimeouts = {} /\ cleanPc = "idle"
       /\ NextTerminate
  \/ termPc = "returned" /\ cleanPc # "returned" /\ NextCleanup

SpecLifecycle == InitLifecycle /\ [][NextLifecycle]_vars

\* C35: once get_params_from_args has built the parameter mapping, no step
\* of assert_credentials_are_valid, configure_instance_security,
\* does_zone_exist, run_instances, describe_instances, terminate_instances
\* or cleanup_state adds, removes or rewrites one of its keys.
C35_ParametersUnchanged ==
  [][secPc # "params" => secParams' = secParams]_vars

\* The whole sequence of calls was made with one mapping: a machine was run,
\* terminated, and the network cleaned up.
C35_Witness ==
  /\ secParams # NoParams
  /\ \E i \in DOMAIN secCalls : secCalls[i] = <<"providers.list">>
  /\ runCount >= 1
  /\ termPc = "returned"
  /\ \E n \in MachineNames : vmDeleteCalls[n] >= 1
  /\ cleanPc = "returned"
  /\ CleanIssuedOf("vnet") # {}

\* The sleeps that follow a failed probe of the user service.
ProbeSleeps ==
  {i \in BringAt("sleep") : i > 1 /\ bringTrace[i - 1] = "does_user_exist"}

\* Bring-up has got past the account-creation call.
AccountsReached ==
  bringPc \in {"admin_role", "loading", "port", "log_finished", "done"}

\* The probe comes after is_initialized and before create_user_accounts, a
\* failed probe does not end bring-up, and create_user_accounts is called
\* once afterwards.
ProbeBetween ==
  /\ \A i \in BringAt("does_user_exist") :
       /\ i > 1 /\ bringTrace[i - 1] = "is_initialized"
       /\ \A j \in BringAt("create_user_accounts") : i < j
  /\ \A j \in BringAt("create_user_accounts") :
       BringAt("does_user_exist") # {}
  /\ Cardinality(BringAt("create_user_accounts")) <= 1
  /\ ProbeSleeps # {} /\ bringPc = "raised" =>
       BringAt("create_user_accounts") # {}
  /\ AccountsReached => Cardinality(BringAt("create_user_accounts")) = 1

\* C36: the user-existence probe is issued after initialization is reported
\* and before the account-creation call; a probe that failed is issued once
\* more after its sleep; a failed probe never ends bring-up; and the
\* account-creation call is issued exactly once afterwards.
C36_ProbeRetriedOnce ==
  /\ ProbeBetween
  /\ \A i \in ProbeSleeps :
       i < Len(bringTrace) => bringTrace[i + 1] = "does_user_exist"

(***************************************************************************)
(* AppScaleTools.upgrade as a whole: the checks and the shut-down, then    *)
(* upgrade_appscale or run_upgrade_script.                                 *)
(***************************************************************************)
\* The body of the method upgrade called last: upgrade_appscale over the
\* nodes of node_layout, or run_upgrade_script at once.
upgrade_dispatch ==
  /\ prePc \in {"upgrade_appscale", "run_upgrade_script"}
  /\ upgPc = "idle"
  /\ upgNodes' \in 1..MaxNodes
  /\ upgPc' = IF prePc = "upgrade_appscale" THEN "create" ELSE "script"
  /\ UNCHANGED <<upgJoined, upgScriptRan, upgThreads, upgScript, notUpg>>

\* A valid layout and current tools; the deployment is behind the published
\* release or not; its secret key is on disk or not.
InitUpgradeOffline ==
  /\ PollerIdle /\ CloudIdle /\ RunIdle /\ TermIdle /\ CleanIdle
  /\ BringIdle /\ TearIdle /\ UpgIdle /\ AddIdle /\ SecIdle /\ RemIdle
  /\ prePc = "layout"
  /\ preTest \in BOOLEAN
  /\ preKey \in BOOLEAN
  /\ preLayoutErrors = <<>>
  /\ preLocal = <<3, 10, 0>>
  /\ prePublished = <<3, 10, 0>>
  /\ preFetched = FALSE
  /\ preLatest = preLocal
  /\ preInstalled = <<3, 9, 0>>
  /\ preAvailable \in {<<3, 9, 0>>, <<3, 9, 1>>}
  /\ preCurrent = "none"
  /\ preTrace = <<>>
  /\ preAnswers = <<>>
  /\ preError = NoError

\* The steps up to the start of the upgrade script; the status loop that
\* follows starts nothing and is followed in SpecUpgrade.
NextUpgradeOffline ==
  \/ NextUpgradePreflight
  \/ upgrade_dispatch
  \/ upgrade_appscale_create_threads
  \/ upgrade_appscale_start_thread
  \/ \E n \in UpgNodeSet : run_bootstrap_ssh(n)
  \/ \E n \in UpgNodeSet : run_bootstrap_return(n)
  \/ upgrade_appscale_join
  \/ upgrade_appscale_decide
  \/ run_upgrade_script_start
  \/ async_layout_upgrade

SpecUpgradeOffline == InitUpgradeOffline /\ [][NextUpgradeOffline]_vars

\* A bootstrap command has been started on some node.
BootstrapStarted == \E n \in 1..MaxNodes : upgStarts[n] >= 1

\* The upgrade script has been started on the head node.
UpgradeScriptStarted == watcherPc # "idle"

\* shut_down_appscale_if_running has returned: the operator agreed unless in
\* test mode, and the deployment was stopped if its secret key exists.
ShutDownCompleted ==
  /\ prePc \in {"call", "upgrade_appscale", "run_upgrade_script"}
  /\ preKey => \E i \in DOMAIN preTrace : preTrace[i] = "terminate_instances"
  /\ ~preTest =>
       /\ preAnswers # <<>>
       /\ preAnswers[Len(preAnswers)].prompt =
            (IF preKey THEN "shut down" ELSE "proceed")
       /\ IsYes(preAnswers[Len(preAnswers)].response)

\* C37: no bootstrap command and no upgrade script is started before the
\* shut-down step has completed, and a run in which the operator declined
\* or the shut-down raised starts neither, ever.
C37_UpgradeOffline ==
  /\ (BootstrapStarted \/ UpgradeScriptStarted) => ShutDownCompleted
  /\ prePc = "raised" =>
       ~BootstrapStarted /\ ~UpgradeScriptStarted /\ upgPc = "idle"

\* The bootstrap ran on two nodes after the operator agreed to the
\* shut-down of a running deployment.
C37_Witness ==
  /\ preKey /\ ~preTest
  /\ \A n \in 1..2 : upgStarts[n] = 1
  /\ UpgradeScriptStarted

(***************************************************************************)
(* AppScaleTools.upload_app from the point the application was handed to   *)
(* the AppController: the lookup of its serving port and the wait for it.  *)
(***************************************************************************)
\* acc.done_uploading(app_id, remote_file_path); acc.update([app_id])
upload_app_update ==
  /\ remPc = "upload"
  /\ remTrace' = <<"done_uploading", "update">>
  /\ remPc' = "upload_lookup"
  /\ UNCHANGED <<remConfirm, remAnswers, remQueries, remSleeps, remPort,
                 remWaits, remError, notRem>>

\* One turn of upload_app's loop over range(MAX_RETRIES + 1):
\* acc.get_all_stats(), then break on a port, or sleep on an empty port, a
\* KeyError or a ValueError.
upload_app_get_all_stats ==
  /\ remPc = "upload_lookup"
  /\ remQueries < MAX_RETRIES + 1
  /\ remQueries' = remQueries + 1
  /\ \E result \in {"port", "no port", "KeyError", "ValueError"} :
       IF result = "port"
         THEN /\ remPort' = TRUE
              /\ remPc' = "upload_port"
              /\ UNCHANGED remSleeps
         ELSE /\ remSleeps' = remSleeps + 1
              /\ UNCHANGED <<remPc, remPort>>
  /\ UNCHANGED <<remConfirm, remAnswers, remWaits, remTrace, remError,
                 notRem>>

\* The loop ran out: if not http_port: raise
upload_app_no_port ==
  /\ remPc = "upload_lookup"
  /\ remQueries = MAX_RETRIES + 1
  /\ RemRaise("Unable to get the serving port for the application.")
  /\ UNCHANGED <<remConfirm, remAnswers, remQueries, remSleeps, remPort,
                 remWaits, remTrace, notRem>>

\* RemoteHelper.sleep_until_port_is_open(login_host, http_port, verbose);
\* return (login_host, http_port)
upload_app_sleep_until_port_is_open ==
  /\ remPc = "upload_port"
  /\ remTrace' = Append(remTrace, "sleep_until_port_is_open")
  /\ remPc' = "done"
  /\ UNCHANGED <<remConfirm, remAnswers, remQueries, remSleeps, remPort,
                 remWaits, remError, notRem>>

InitUploadApp ==
  /\ PollerIdle /\ CloudIdle /\ RunIdle /\ TermIdle /\ CleanIdle
  /\ BringIdle /\ TearIdle /\ UpgIdle /\ PreIdle /\ AddIdle /\ SecIdle
  /\ remPc = "upload"
  /\ remConfirm = TRUE
  /\ remAnswers = <<>>
  /\ remQueries = 0
  /\ remSleeps = 0
  /\ remPort = FALSE
  /\ remWaits = 0
  /\ remTrace = <<>>
  /\ remError = "none"

NextUploadApp ==
  \/ upload_app_update
  \/ upload_app_get_all_stats
  \/ upload_app_no_port
  \/ upload_app_sleep_until_port_is_open

InitPortLookup == InitRemoveApp \/ InitUploadApp

NextPortLookup == NextRemoveApp \/ NextUploadApp

SpecPortLookup == InitPortLookup /\ [][NextPortLookup]_vars

NoServingPort == "Unable to get the serving port for the application."

\* The workflow is in its lookup loop.
InLookup == remPc \in {"lookup", "upload_lookup"}

\* The workflow has gone on past its lookup loop.
PastLookup == remPc \in {"stop_app", "wait", "done", "upload_port"}

\* C39: the serving-port lookup of remove_app and of upload_app makes at
\* most MAX_RETRIES + 1 queries, makes none after the query that yielded a
\* port, has slept once for every query that yielded none, raises when
\* MAX_RETRIES + 1 queries yielded none, and only a lookup that found a port
\* is followed by stop_app or by the wait for the port.
C39_PortLookupBounded ==
  /\ [](/\ remQueries <= MAX_RETRIES + 1
        /\ remSleeps = remQueries - (IF remPort THEN 1 ELSE 0)
        /\ remPort <=> (PastLookup /\ remQueries >= 1)
        /\ (\E i \in DOMAIN remTrace :
             remTrace[i] \in {"stop_app", "sleep_until_port_is_open"})
             => remPort
        /\ remError = NoServingPort =>
             /\ remPc = "raised"
             /\ ~remPort
             /\ remQueries = MAX_RETRIES + 1)
  /\ [][remPort => remQueries' = remQueries /\ remSleeps' = remSleeps]_vars
  /\ [][(InLookup /\ remQueries = MAX_RETRIES + 1) =>
          remPc' = "raised" /\ remError' = NoServingPort]_vars

\* remove_app gave up after MAX_RETRIES + 1 queries and as many sleeps.
C39_Witness ==
  /\ remError = NoServingPort
  /\ remQueries = MAX_RETRIES + 1
  /\ remSleeps = MAX_RETRIES + 1
  /\ \E i \in DOMAIN remTrace : remTrace[i] = "is_app_running"

\* The three inputs tear-down rejects.
NoConfiguration == ~tearConfig

TerminateOnCluster == tearInfra = "xen" /\ tearTerminate

NotRunning == (tearInfra = "xen" \/ ~tearTerminate) /\ ~tearKey

TearRejected == NoConfiguration \/ TerminateOnCluster \/ NotRunning

\* C40: tear-down whose local configuration cannot be read, that is asked
\* to terminate the machines of a virtualized cluster, or that is to leave
\* the machines (or runs on xen) without a secret key file, never reaches
\* the graceful stop or the cloud termination and ends with the error of
\* the first of the three tests it fails; no other input is rejected before
\* the graceful stop.
C40_RejectsBeforeActing ==
  /\ TearRejected =>
       /\ tearPc \in {"start", "option", "key", "raised"}
       /\ tearStop = "none"
       /\ tearCloud = "none"
  /\ (TearRejected /\ tearPc = "raised") =>
       tearError =
         IF NoConfiguration
           THEN "AppScaleException: cannot find configuration"
         ELSE IF TerminateOnCluster
           THEN "AppScaleException: terminate invalid for cluster"
         ELSE "AppScaleException: not running"
  /\ (NoConfiguration /\ tearPc # "start") => tearPc = "raised"
  /\ (TerminateOnCluster /\ tearPc \notin {"start", "option"}) =>
       tearPc = "raised"
  /\ (tearPc = "raised" /\ tearStop = "none" /\ tearCloud = "none") =>
       TearRejected

\* A cloud deployment that is to keep its machines and has no secret key
\* file was rejected.
C40_Witness ==
  /\ tearConfig
  /\ tearInfra \in VALID_AGENTS
  /\ ~tearTerminate
  /\ ~tearKey
  /\ tearPc = "raised"
  /\ tearError = "AppScaleException: not running"

====
